---- MODULE Spec2Model ----
(***************************************************************************)
(* A model of the mail-to-chat relay of smtp_server.py: envelope           *)
(* validation, content extraction, recipient resolution, the delivery      *)
(* strategy of send_to_telegram with its bounded retry, the statistics     *)
(* and the bounded message history.                                        *)
(*                                                                         *)
(* Strings that only matter through their length are abstracted to counts  *)
(* of characters per escape class (StrOf); a text handed to the transport  *)
(* is a slice [lo, hi) of the escaped message text, with an optional       *)
(* "..." suffix.  Strings that are parsed (addresses, content types) are   *)
(* sequences of one-character strings.                                     *)
(***************************************************************************)
EXTENDS Integers, Sequences, FiniteSets, Bags, TLC

VARIABLES
    stats,      \* Stats: total/delivered/failed counters and the two tallies
    messages,   \* CustomSMTPHandler.messages, the bounded deque
    task,       \* per handler task: position and locals of handle_DATA / send_to_telegram
    calls,      \* the calls handed to the transport (bot.*) by the handler invocations
                \* in progress or last completed, in order, each with its outcome
    failures,   \* number of failing transport outcomes produced so far
    received,   \* number of handle_DATA / send_to_telegram invocations started so far
    observed,   \* history of the run: what the handlers have done so far, counted
    helper,     \* the helper function called on its own last, with its argument and result
    reporter    \* the statistics task: its position in send_stats, the report it
                \* generated, and the figures of the reports generated so far

vars == <<stats, messages, task, calls, failures, received, observed, helper, reporter>>

-----------------------------------------------------------------------------
(* Bounds of the model *)

\* failing transport outcomes per run
MaxFailures == 4
\* invocations of handle_DATA per run
MaxMessages == 2
\* ServerConfig.max_stored_messages of the modelled configuration
max_stored_messages == 2
\* invocations of handle_DATA per run of the history specification
MaxHistoryMessages == 4
\* invocations of handle_DATA per run of the concurrent specification
MaxConcurrentMessages == 3
\* longest local part drawn from the alphabet of separators and characters
MaxLocalNameLen == 4
\* longest text and largest chunk length the text helpers are called with
MaxTextLen == 7
MaxChunkLen == 4

(* Program constants *)

_telegram_retry_attempts == 3
_telegram_retry_base_delay == 1
_telegram_retry_max_delay == 10
CaptionLimit == 1024
ChunkLimit == 4096
MinContentSize == 50
max_message_size == 104857600

\* Optional values: None is the empty tuple, Some(x) the one-element tuple.
None == << >>
Some(x) == <<x>>
Get(o) == o[1]

Min(a, b) == IF a < b THEN a ELSE b

-----------------------------------------------------------------------------
(* Text helpers *)

\* A raw string, by the number of its characters in each class html.escape
\* distinguishes.
StrOf(p, a, l) == [plain |-> p, amp |-> a, lt |-> l, gt |-> l, quot |-> 0, apos |-> 0]

RawLen(s) == s.plain + s.amp + s.lt + s.gt + s.quot + s.apos

\* Python truthiness of an Optional[str]
Truthy(s) == s # None /\ RawLen(Get(s)) > 0

\* html.escape(text): & -> &amp;  < -> &lt;  > -> &gt;  " -> &quot;  ' -> &#x27;
\* The result is the length of the escaped string.
html_escape(s) == s.plain + 5 * s.amp + 4 * s.lt + 4 * s.gt + 6 * s.quot + 6 * s.apos

_sanitize_text(text) == IF ~Truthy(text) THEN 0 ELSE html_escape(Get(text))

\* Length of the message text: "subject\nbody", or whichever is non-empty.
_build_message_text(subject, body) ==
    LET subject_text == _sanitize_text(subject)
        body_text == _sanitize_text(body)
    IN  IF subject_text > 0 /\ body_text > 0
        THEN subject_text + 1 + body_text
        ELSE IF subject_text > 0 THEN subject_text ELSE body_text

\* A piece of the message text: characters lo .. hi-1, then "..." if dots.
Slice(lo, hi, dots) == [lo |-> lo, hi |-> hi, dots |-> dots]

SliceLen(s) == (s.hi - s.lo) + (IF s.dots THEN 3 ELSE 0)

\* Variant: the text is never cut
_truncate_text_whole(len, max_length) == Slice(0, len, FALSE)

\* text[:max_length - 3] + "..." when the text is longer than max_length
_truncate_text(len, max_length) ==
    IF len = 0 THEN Slice(0, 0, FALSE)
    ELSE IF len > max_length THEN Slice(0, max_length - 3, TRUE)
    ELSE Slice(0, len, FALSE)

\* Variant: the range of chunk starts ends one position early
_split_text_range_one_short(len, max_length) ==
    IF len = 0 THEN << >>
    ELSE [k \in 1 .. ((len - 1 + max_length - 1) \div max_length) |->
              Slice((k - 1) * max_length, Min(k * max_length, len), FALSE)]

\* Variant: only the full chunks, the shorter last one dropped
_split_text_full_chunks_only(len, max_length) ==
    [k \in 1 .. (len \div max_length) |->
        Slice((k - 1) * max_length, k * max_length, FALSE)]

\* [text[i:i + max_length] for i in range(0, len(text), max_length)]
_split_text(len, max_length) ==
    IF len = 0 THEN << >>
    ELSE [k \in 1 .. ((len + max_length - 1) \div max_length) |->
              Slice((k - 1) * max_length, Min(k * max_length, len), FALSE)]

-----------------------------------------------------------------------------
(* Character-sequence strings *)

StartsWith(s, p) == Len(p) <= Len(s) /\ SubSeq(s, 1, Len(p)) = p

UpperChars == <<"A", "B", "C", "D", "E", "F", "G", "H", "I", "J", "K", "L", "M", "N", "O", "P", "Q", "R", "S", "T", "U", "V", "W", "X", "Y", "Z">>
LowerChars == <<"a", "b", "c", "d", "e", "f", "g", "h", "i", "j", "k", "l", "m", "n", "o", "p", "q", "r", "s", "t", "u", "v", "w", "x", "y", "z">>

\* str.lower() on the letters of the alphabet
lower(s) ==
    [i \in 1 .. Len(s) |->
        IF \E k \in 1 .. Len(UpperChars) : UpperChars[k] = s[i]
        THEN LowerChars[CHOOSE k \in 1 .. Len(UpperChars) : UpperChars[k] = s[i]]
        ELSE s[i]]

\* Position of the first occurrence of character c in s, 0 if none
IndexOf(s, c) ==
    IF \E i \in 1 .. Len(s) : s[i] = c
    THEN CHOOSE i \in 1 .. Len(s) : s[i] = c /\ \A j \in 1 .. (i - 1) : s[j] # c
    ELSE 0

\* str.split(c): the pieces between the occurrences of character c
RECURSIVE split(_, _)
split(s, c) ==
    LET i == IndexOf(s, c)
    IN  IF i = 0 THEN <<s>>
        ELSE <<SubSeq(s, 1, i - 1)>> \o split(SubSeq(s, i + 1, Len(s)), c)

\* str.split(c, 1): at most one split, at the first occurrence
split1(s, c) ==
    LET i == IndexOf(s, c)
    IN  IF i = 0 THEN <<s>>
        ELSE <<SubSeq(s, 1, i - 1), SubSeq(s, i + 1, Len(s))>>

\* str.lstrip(chars): drop the leading characters that are in the set chars
RECURSIVE lstrip(_, _)
lstrip(s, chars) ==
    IF s # << >> /\ Head(s) \in chars THEN lstrip(Tail(s), chars) ELSE s

Range(s) == {s[i] : i \in 1 .. Len(s)}

\* str.rstrip() and str.strip() of white space
Whitespace == {" ", "\n", "\t"}

RECURSIVE rstrip(_, _)
rstrip(s, chars) ==
    IF s # << >> /\ s[Len(s)] \in chars THEN rstrip(SubSeq(s, 1, Len(s) - 1), chars) ELSE s

strip(s) == rstrip(lstrip(s, Whitespace), Whitespace)

\* sub in s
Contains(s, sub) ==
    \E i \in 0 .. (Len(s) - Len(sub)) : SubSeq(s, i + 1, i + Len(sub)) = sub

\* sep.join(pieces)
RECURSIVE join(_, _)
join(pieces, sep) ==
    IF pieces = << >> THEN << >>
    ELSE IF Len(pieces) = 1 THEN pieces[1]
    ELSE pieces[1] \o sep \o join(Tail(pieces), sep)

\* str.splitlines() at the line feeds
splitlines(s) ==
    IF s = << >> THEN << >>
    ELSE LET pieces == split(s, "\n")
         IN  IF pieces[Len(pieces)] = << >>
             THEN SubSeq(pieces, 1, Len(pieces) - 1)
             ELSE pieces

\* html.unescape on the character references &lt; &gt; &amp;
RECURSIVE html_unescape(_)
html_unescape(s) ==
    IF s = << >> THEN << >>
    ELSE IF StartsWith(s, <<"&", "l", "t", ";">>)
    THEN <<"<">> \o html_unescape(SubSeq(s, 5, Len(s)))
    ELSE IF StartsWith(s, <<"&", "g", "t", ";">>)
    THEN <<">">> \o html_unescape(SubSeq(s, 5, Len(s)))
    ELSE IF StartsWith(s, <<"&", "a", "m", "p", ";">>)
    THEN <<"&">> \o html_unescape(SubSeq(s, 6, Len(s)))
    ELSE <<Head(s)>> \o html_unescape(Tail(s))

-----------------------------------------------------------------------------
(* HTML to text *)

\* The markup is a sequence of items as html.parser.HTMLParser scans them:
\* [kind |-> "start", tag, href], [kind |-> "end", tag] and
\* [kind |-> "text", data], data being the characters between two tags.

BLOCK_TAGS == {"p", "div", "br", "li", "tr", "table", "section"}

\* The elements whose content HTMLParser hands over as raw character data
CDATA_CONTENT_ELEMENTS == {"script", "style"}

\* _HTMLToTextParser()
NewParser == [parts |-> << >>, current_link |-> None, cdata_elem |-> None]

\* _HTMLToTextParser._append_break
_append_break(parser) ==
    IF parser.parts = << >> \/ parser.parts[Len(parser.parts)] # <<"\n">>
    THEN [parser EXCEPT !.parts = Append(@, <<"\n">>)]
    ELSE parser

\* _HTMLToTextParser.handle_starttag(tag, attrs), href being
\* dict(attrs).get("href", "")
handle_starttag(parser, tag, href) ==
    LET broken == IF tag \in BLOCK_TAGS THEN _append_break(parser) ELSE parser
    IN  IF tag = "a"
        THEN [broken EXCEPT !.current_link = Some([href |-> href, text |-> << >>])]
        ELSE broken

\* _HTMLToTextParser.handle_endtag(tag)
handle_endtag(parser, tag) ==
    LET broken == IF tag \in BLOCK_TAGS THEN _append_break(parser) ELSE parser
    IN  IF tag = "a" /\ broken.current_link # None
        THEN LET href == strip(Get(broken.current_link).href)
                 text == strip(Get(broken.current_link).text)
             IN  [broken EXCEPT
                    !.parts = IF href # << >> /\ ~Contains(text, href)
                              THEN Append(@, <<" ", "(">> \o href \o <<")">>)
                              ELSE @,
                    !.current_link = None]
        ELSE broken

\* _HTMLToTextParser.handle_data(data)
handle_data(parser, data) ==
    IF data = << >> THEN parser
    ELSE [parser EXCEPT
            !.parts = Append(@, data),
            !.current_link =
                IF @ # None THEN Some([Get(@) EXCEPT !.text = @ \o data]) ELSE @]

\* HTMLParser.feed(html): the handler called for each item; character
\* references in text are converted (convert_charrefs) except inside script
\* and style elements, whose content is handed over as it is
RECURSIVE feed(_, _)
feed(parser, items) ==
    IF items = << >> THEN parser
    ELSE
    LET item == Head(items)
        next ==
            IF item.kind = "start"
            THEN [handle_starttag(parser, item.tag, item.href) EXCEPT
                    !.cdata_elem = IF item.tag \in CDATA_CONTENT_ELEMENTS
                                   THEN Some(item.tag) ELSE @]
            ELSE IF item.kind = "end"
            THEN [handle_endtag(parser, item.tag) EXCEPT
                    !.cdata_elem = IF @ = Some(item.tag) THEN None ELSE @]
            ELSE IF parser.cdata_elem # None
            THEN handle_data(parser, item.data)
            ELSE handle_data(parser, html_unescape(item.data))
    IN  feed(next, Tail(items))

\* _HTMLToTextParser.get_text()
get_text(parser) ==
    LET raw == join(parser.parts, << >>)
        lines == [k \in 1 .. Len(splitlines(raw)) |-> strip(splitlines(raw)[k])]
        compact == join(SelectSeq(lines, LAMBDA line : line # << >>), <<"\n">>)
    IN  html_unescape(compact)

-----------------------------------------------------------------------------
(* Recipient resolution *)

\* Variant: the name is split on "_" first and on "!" only if that yields a
\* single piece
LocalRecipient_parse_underscore_first(local_name) ==
    IF local_name = << >> THEN None
    ELSE
    LET dotted == split1(local_name, ".")
        name == dotted[1]
        flags == IF Len(dotted) = 2 THEN Range(split(dotted[2], ".")) ELSE {}
        by_underscore == split(name, "_")
        parts == IF Len(by_underscore) = 1 THEN split(name, "!") ELSE by_underscore
        silent == (<<"s">> \in flags) \/ (<<"s", "i", "l", "e", "n", "t">> \in flags)
    IN  IF Len(parts) = 1
        THEN Some([chat_id |-> lstrip(parts[1], {"i", "d"}),
                   message_thread_id |-> None, silent |-> silent])
        ELSE IF Len(parts) = 2
        THEN Some([chat_id |-> lstrip(parts[1], {"i", "d"}),
                   message_thread_id |-> Some(parts[2]), silent |-> silent])
        ELSE None

\* LocalRecipient.parse(local_name): an Optional LocalRecipient
LocalRecipient_parse(local_name) ==
    IF local_name = << >> THEN None
    ELSE
    LET dotted == split1(local_name, ".")
        name == dotted[1]
        flags == IF Len(dotted) = 2 THEN Range(split(dotted[2], ".")) ELSE {}
        by_bang == split(name, "!")
        parts == IF Len(by_bang) = 1 THEN split(name, "_") ELSE by_bang
        silent == (<<"s">> \in flags) \/ (<<"s", "i", "l", "e", "n", "t">> \in flags)
    IN  IF Len(parts) = 1
        THEN Some([chat_id |-> lstrip(parts[1], {"i", "d"}),
                   message_thread_id |-> None, silent |-> silent])
        ELSE IF Len(parts) = 2
        THEN Some([chat_id |-> lstrip(parts[1], {"i", "d"}),
                   message_thread_id |-> Some(parts[2]), silent |-> silent])
        ELSE None

\* ServerConfig.local_domains and ServerConfig.recipient_aliases of the
\* modelled configuration
local_domains == {"example.com"}

recipient_aliases ==
    [name \in {<<"a", "d", "m", "i", "n">>, <<"b", "o", "s", "s">>, <<"n", "o", "n", "e">>} |->
        IF name = <<"a", "d", "m", "i", "n">> THEN <<"-", "1", "0", "0", "!", "5", "5">>
        ELSE IF name = <<"b", "o", "s", "s">> THEN <<"a", "d", "m", "i", "n">>
        ELSE << >>]

\* Variant: the alias is substituted and the flag suffix is lost
_resolve_local_recipient_drops_flags(local_name) ==
    IF local_name = << >> THEN None
    ELSE
    LET dotted == split1(local_name, ".")
        raw_local_name == dotted[1]
        flag_suffix == IF Len(dotted) = 2 THEN <<".">> \o dotted[2] ELSE << >>
    IN  IF raw_local_name \in DOMAIN recipient_aliases
        THEN LocalRecipient_parse(recipient_aliases[raw_local_name])
        ELSE LocalRecipient_parse(raw_local_name \o flag_suffix)

\* CustomSMTPHandler._resolve_local_recipient(local_name)
_resolve_local_recipient(local_name) ==
    IF local_name = << >> THEN None
    ELSE
    LET dotted == split1(local_name, ".")
        raw_local_name == dotted[1]
        flag_suffix == IF Len(dotted) = 2 THEN <<".">> \o dotted[2] ELSE << >>
        canonical_local_name ==
            IF raw_local_name \in DOMAIN recipient_aliases
            THEN recipient_aliases[raw_local_name]
            ELSE raw_local_name
    IN  LocalRecipient_parse(canonical_local_name \o flag_suffix)

\* An address is [local, domain]: parseaddr gives "local@domain".
\* CustomSMTPHandler._is_local_recipient(email)
_is_local_recipient(email) == email.domain \in local_domains

\* CustomSMTPHandler._get_local_recipient_name(email)
_get_local_recipient_name(email) ==
    IF email.domain \in local_domains
    THEN _resolve_local_recipient(email.local)
    ELSE None

\* Variant: the first recipient that is not local or does not resolve ends
\* the loop
RECURSIVE _handle_local_delivery_stops_at_unresolved(_)
_handle_local_delivery_stops_at_unresolved(rcpt_tos) ==
    IF rcpt_tos = << >> THEN << >>
    ELSE
    LET rcpt == Head(rcpt_tos)
        recipient == IF rcpt.domain \in local_domains
                     THEN _get_local_recipient_name(rcpt)
                     ELSE None
    IN  IF recipient = None THEN << >>
        ELSE <<Get(recipient)>> \o _handle_local_delivery_stops_at_unresolved(Tail(rcpt_tos))

\* CustomSMTPHandler._handle_local_delivery: the list local_recipients
RECURSIVE _handle_local_delivery(_)
_handle_local_delivery(rcpt_tos) ==
    IF rcpt_tos = << >> THEN << >>
    ELSE
    LET rcpt == Head(rcpt_tos)
        recipient == IF rcpt.domain \in local_domains
                     THEN _get_local_recipient_name(rcpt)
                     ELSE None
    IN  (IF recipient # None THEN <<Get(recipient)>> ELSE << >>)
            \o _handle_local_delivery(Tail(rcpt_tos))

-----------------------------------------------------------------------------
(* Attachment classification *)

\* An attachment is [filename, content_type, size, generated_html], size
\* being len(content).

\* The MEDIA_TYPES table of _prepare_media_files, in its iteration order
MEDIA_TYPES == <<
    [type_name |-> "animation", mime_types |-> {<<"i", "m", "a", "g", "e", "/", "g", "i", "f">>}],
    [type_name |-> "photo", mime_types |-> {<<"i", "m", "a", "g", "e", "/">>, <<"a", "p", "p", "l", "i", "c", "a", "t", "i", "o", "n", "/", "p", "n", "g">>,
                                            <<"a", "p", "p", "l", "i", "c", "a", "t", "i", "o", "n", "/", "j", "p", "g">>, <<"a", "p", "p", "l", "i", "c", "a", "t", "i", "o", "n", "/", "j", "p", "e", "g">>}],
    [type_name |-> "video", mime_types |-> {<<"v", "i", "d", "e", "o", "/">>, <<"a", "p", "p", "l", "i", "c", "a", "t", "i", "o", "n", "/", "m", "p", "4">>,
                                            <<"a", "p", "p", "l", "i", "c", "a", "t", "i", "o", "n", "/", "m", "p", "e", "g">>}],
    [type_name |-> "audio", mime_types |-> {<<"a", "u", "d", "i", "o", "/">>, <<"a", "p", "p", "l", "i", "c", "a", "t", "i", "o", "n", "/", "o", "g", "g">>,
                                            <<"a", "p", "p", "l", "i", "c", "a", "t", "i", "o", "n", "/", "m", "p", "3">>, <<"a", "p", "p", "l", "i", "c", "a", "t", "i", "o", "n", "/", "w", "a", "v">>}] >>

\* The keys of media_files, in insertion (iteration) order
MediaOrder == <<"photo", "video", "audio", "animation", "document">>

\* Variant: the loop over the table has no break, the last match wins
media_type_of_last_match(content_type) ==
    LET ct == lower(content_type)
        hits == {k \in 1 .. Len(MEDIA_TYPES) :
                    \E mime_type \in MEDIA_TYPES[k].mime_types : StartsWith(ct, mime_type)}
    IN  IF hits = {} THEN "document"
        ELSE MEDIA_TYPES[CHOOSE k \in hits : \A j \in hits : k >= j].type_name

\* The media type the classification loop settles on for one content type
media_type_of(content_type) ==
    LET ct == lower(content_type)
        hits == {k \in 1 .. Len(MEDIA_TYPES) :
                    \E mime_type \in MEDIA_TYPES[k].mime_types : StartsWith(ct, mime_type)}
    IN  IF hits = {} THEN "document"
        ELSE MEDIA_TYPES[CHOOSE k \in hits : \A j \in hits : k <= j].type_name

\* Variant: an attachment without content is classified like the others
_prepare_media_files_keeps_empty(attachments) ==
    [t \in Range(MediaOrder) |->
        SelectSeq(attachments, LAMBDA a : media_type_of(a.content_type) = t)]

\* CustomSMTPHandler._prepare_media_files(attachments): media type -> files
_prepare_media_files(attachments) ==
    [t \in Range(MediaOrder) |->
        SelectSeq(attachments,
                  LAMBDA a : a.size > 0 /\ media_type_of(a.content_type) = t)]

-----------------------------------------------------------------------------
(* Delivery strategy: the transport operations send_to_telegram goes on to  *)
(* issue, each with the way its failure is handled                          *)

\* One pending transport operation.
\*   text      send_message: the text; single media: the caption; media
\*             group: the caption of the first item (None: no caption)
\*   retry     issued through _execute_with_retry
\*   onfail    "raise": the exception reaches send_to_telegram's handler;
\*             "return_false": _send_media returns False;
\*             "fallback_with_text": _send_media_group_with_text's handler;
\*             "fallback": _send_media_group's handler
\*   counts    a False result reaches send_to_telegram's return value
Step(op, text, parse_mode, media_type, files, retry, onfail, counts) ==
    [op |-> op, text |-> text, parse_mode |-> parse_mode, media_type |-> media_type,
     files |-> files, retry |-> retry, onfail |-> onfail, counts |-> counts]

\* CustomSMTPHandler._send_text_messages(text): one send_message per chunk
_send_text_messages(text) ==
    LET chunks == _split_text(text, ChunkLimit)
    IN  [k \in 1 .. Len(chunks) |->
            Step("send_message", Some(chunks[k]), Some("HTML"), "", << >>,
                 TRUE, "raise", TRUE)]

\* A single send_message of the whole text through _execute_with_retry
send_message_step(text) ==
    Step("send_message", Some(text), Some("HTML"), "", << >>, TRUE, "raise", TRUE)

\* The bot method _send_media picks for a media type
send_op(media_type) ==
    CASE media_type = "photo" -> "send_photo"
      [] media_type = "video" -> "send_video"
      [] media_type = "audio" -> "send_audio"
      [] media_type = "animation" -> "send_animation"
      [] OTHER -> "send_document"

\* Variant: the media item is sent without its caption
_send_media_without_caption(media_type, file, text, counts) ==
    Step(send_op(media_type), None, None, media_type, <<file>>, TRUE, "return_false", counts)

\* CustomSMTPHandler._send_media(media_type, file, text)
_send_media(media_type, file, text, counts) ==
    Step(send_op(media_type), text,
         IF text # None /\ SliceLen(Get(text)) > 0 THEN Some("HTML") ELSE None,
         media_type, <<file>>, TRUE, "return_false", counts)

\* Variant: only the first file is sent
_send_files_individually_first_only(media_type, files, counts) ==
    IF files = << >> THEN << >>
    ELSE <<Step(send_op(media_type), None, None, media_type, <<Head(files)>>,
                TRUE, "return_false", counts)>>

\* CustomSMTPHandler._send_files_individually(media_type, files)
_send_files_individually(media_type, files, counts) ==
    [k \in 1 .. Len(files) |-> _send_media(media_type, files[k], None, counts)]

\* Variant: the text is sent on its own and the group carries no caption
_send_media_group_with_text_apart(media_type, files, text) ==
    <<Step("send_message", Some(text), Some("HTML"), "", << >>, TRUE, "raise", TRUE),
      Step("send_media_group", None, None, media_type, files, TRUE, "fallback", TRUE)>>

\* CustomSMTPHandler._send_media_group_with_text(media_type, files, text),
\* for the groupable types
_send_media_group_with_text(media_type, files, text) ==
    <<Step("send_media_group", Some(text), Some("HTML"), media_type, files,
           TRUE, "fallback_with_text", TRUE)>>

\* CustomSMTPHandler._send_media_group(media_type, files): audio and
\* animation return False without any call
_send_media_group(media_type, files, counts) ==
    IF media_type \in {"photo", "video", "document"}
    THEN <<Step("send_media_group", None, None, media_type, files,
                TRUE, "fallback", counts)>>
    ELSE << >>

\* Variant: the generated-HTML document carries a caption
send_generated_html_with_caption(attachment) ==
    Step("send_document", Some(Slice(0, 1, FALSE)), Some("HTML"), "document",
         <<attachment>>, FALSE, "raise", TRUE)

\* bot.send_document of one generated-HTML attachment, called directly
send_generated_html(attachment) ==
    Step("send_document", None, None, "document", <<attachment>>, FALSE, "raise", TRUE)

RECURSIVE Flatten(_)
Flatten(ss) == IF ss = << >> THEN << >> ELSE Head(ss) \o Flatten(Tail(ss))

\* The body send_to_telegram picks: text_body or plain_from_html or html_body
body_of(message_dict) ==
    IF Truthy(message_dict.text_body) THEN message_dict.text_body
    ELSE IF Truthy(message_dict.plain_from_html) THEN message_dict.plain_from_html
    ELSE message_dict.html_body

\* Length of the text send_to_telegram builds
text_of(message_dict) == _build_message_text(message_dict.subject, body_of(message_dict))

\* CustomSMTPHandler.send_to_telegram: the operations of the selected branch
send_to_telegram(message_dict) ==
    LET text == text_of(message_dict)
        needs_full_text_message == text > CaptionLimit
        truncated == IF needs_full_text_message
                     THEN _truncate_text(text, CaptionLimit)
                     ELSE Slice(0, text, FALSE)
        caption_text == IF SliceLen(truncated) = 0 THEN None ELSE Some(truncated)
        attachments == message_dict.attachments
        generated_html_attachments == SelectSeq(attachments, LAMBDA a : a.generated_html)
        regular_attachments == SelectSeq(attachments, LAMBDA a : ~a.generated_html)
        generated_steps ==
            [k \in 1 .. Len(generated_html_attachments) |->
                send_generated_html(generated_html_attachments[k])]
        media_files == _prepare_media_files(regular_attachments)
        non_empty_types == SelectSeq(MediaOrder, LAMBDA t : media_files[t] # << >>)
        long_text == IF needs_full_text_message /\ text > 0
                     THEN _send_text_messages(text) ELSE << >>
    IN  IF attachments = << >>
        THEN _send_text_messages(text)
        ELSE IF regular_attachments = << >>
        THEN (IF text > 0 THEN _send_text_messages(text) ELSE << >>) \o generated_steps
        ELSE IF Len(non_empty_types) = 1
        THEN LET media_type == non_empty_types[1]
                 files == media_files[media_type]
             IN  IF Len(files) = 1
                 THEN long_text \o <<_send_media(media_type, files[1], caption_text, TRUE)>>
                 ELSE IF media_type \in {"audio", "animation"}
                 THEN long_text
                      \o <<_send_media(media_type, Head(files), caption_text, TRUE)>>
                      \o _send_files_individually(media_type, Tail(files), TRUE)
                 ELSE long_text
                      \o _send_media_group_with_text(media_type, files,
                             IF caption_text = None THEN Slice(0, 0, FALSE)
                             ELSE Get(caption_text))
        ELSE long_text
             \o (IF ~needs_full_text_message /\ text > 0
                 THEN <<send_message_step(Slice(0, text, FALSE))>> ELSE << >>)
             \o Flatten([k \in 1 .. Len(MediaOrder) |->
                    IF media_files[MediaOrder[k]] # << >>
                    THEN _send_media_group(MediaOrder[k], media_files[MediaOrder[k]], FALSE)
                    ELSE << >>])
             \o generated_steps

-----------------------------------------------------------------------------
(* Envelope validation and content extraction *)

\* An envelope is [content_size, From, To, rcpt_tos, peer, email]:
\* len(envelope.content); what reading the From / To header of the parsed
\* content gives ("present": a non-empty value, "absent": none or empty,
\* "malformed": the header parser raises); the envelope recipients; the peer
\* address (Optional) and the parsed message [subject, multipart, parts].

\* Variant: the From header is checked before the sizes
validate_envelope_from_first(envelope) ==
    IF envelope.From = "malformed"
    THEN <<FALSE, "451 Invalid message format">>
    ELSE IF envelope.From = "absent"
    THEN <<FALSE, "451 Missing required header: From">>
    ELSE IF envelope.content_size > max_message_size
    THEN <<FALSE, "552 Message size exceeds fixed maximum message size">>
    ELSE IF envelope.content_size < MinContentSize
    THEN <<FALSE, "451 Invalid message content">>
    ELSE IF envelope.To = "malformed"
    THEN <<FALSE, "451 Invalid message format">>
    ELSE IF envelope.To = "absent" /\ envelope.rcpt_tos = << >>
    THEN <<FALSE, "451 Missing required header: To">>
    ELSE <<TRUE, "">>

\* CustomSMTPHandler.validate_envelope(envelope): <<is_valid, error_message>>
validate_envelope(envelope) ==
    IF envelope.content_size > max_message_size
    THEN <<FALSE, "552 Message size exceeds fixed maximum message size">>
    ELSE IF envelope.content_size < MinContentSize
    THEN <<FALSE, "451 Invalid message content">>
    ELSE IF envelope.From = "malformed"
    THEN <<FALSE, "451 Invalid message format">>
    ELSE IF envelope.From = "absent"
    THEN <<FALSE, "451 Missing required header: From">>
    ELSE IF envelope.To = "malformed"
    THEN <<FALSE, "451 Invalid message format">>
    ELSE IF envelope.To = "absent" /\ envelope.rcpt_tos = << >>
    THEN <<FALSE, "451 Missing required header: To">>
    ELSE <<TRUE, "">>

\* What extraction has collected so far; raised: an exception left
\* extract_message_content
EmptyParsed(subject) ==
    [subject |-> subject, text_body |-> None, html_body |-> None,
     plain_from_html |-> None, attachments |-> << >>, raised |-> FALSE]

\* CustomSMTPHandler._process_html_content(raw_payload, part, parsed_email)
_process_html_content(part, parsed_email) ==
    [parsed_email EXCEPT
        !.html_body = Some(part.text),
        !.plain_from_html = Some(part.plain),
        !.attachments = Append(@,
            [filename |-> "message.html", content_type |-> <<"t", "e", "x", "t", "/", "h", "t", "m", "l">>,
             size |-> RawLen(part.text) + 1, generated_html |-> TRUE])]

\* CustomSMTPHandler._process_attachment(part, parsed_email)
_process_attachment(part, parsed_email) ==
    IF part.size = 0 THEN parsed_email
    ELSE [parsed_email EXCEPT
            !.attachments = Append(@,
                [filename |-> IF part.filename = ""
                              THEN "attachment_" \o ToString(Len(parsed_email.attachments))
                              ELSE part.filename,
                 content_type |-> part.content_type,
                 size |-> part.size, generated_html |-> FALSE])]

\* Variant: every text/html part is processed, not only the first
_process_message_part_every_html(part, parsed_email) ==
    IF part.content_type = <<"t", "e", "x", "t", "/", "p", "l", "a", "i", "n">> /\ part.disposition # "attachment"
    THEN IF parsed_email.text_body = None
         THEN IF part.decodes
              THEN [parsed_email EXCEPT !.text_body = Some(part.text)]
              ELSE [parsed_email EXCEPT !.raised = TRUE]
         ELSE parsed_email
    ELSE IF part.content_type = <<"t", "e", "x", "t", "/", "h", "t", "m", "l">> /\ part.disposition # "attachment"
    THEN _process_html_content(part, parsed_email)
    ELSE IF part.disposition \in {"attachment", "inline"}
    THEN _process_attachment(part, parsed_email)
    ELSE parsed_email

\* CustomSMTPHandler._process_message_part(part, parsed_email), for a part
\* that is not a multipart container
_process_message_part(part, parsed_email) ==
    IF part.content_type = <<"t", "e", "x", "t", "/", "p", "l", "a", "i", "n">> /\ part.disposition # "attachment"
    THEN IF parsed_email.text_body = None
         THEN IF part.decodes
              THEN [parsed_email EXCEPT !.text_body = Some(part.text)]
              ELSE [parsed_email EXCEPT !.raised = TRUE]
         ELSE parsed_email
    ELSE IF part.content_type = <<"t", "e", "x", "t", "/", "h", "t", "m", "l">> /\ part.disposition # "attachment"
    THEN IF parsed_email.html_body = None
         THEN _process_html_content(part, parsed_email)
         ELSE parsed_email
    ELSE IF part.disposition \in {"attachment", "inline"}
    THEN _process_attachment(part, parsed_email)
    ELSE parsed_email

RECURSIVE walk(_, _)
walk(parts, parsed_email) ==
    IF parts = << >> \/ parsed_email.raised THEN parsed_email
    ELSE walk(Tail(parts), _process_message_part(Head(parts), parsed_email))

\* CustomSMTPHandler.extract_message_content(email_message)
extract_message_content(email_message) ==
    LET parsed_email == EmptyParsed(email_message.subject)
    IN  IF email_message.multipart
        THEN walk(email_message.parts, parsed_email)
        ELSE LET part == email_message.parts[1]
             IN  IF part.content_type = <<"t", "e", "x", "t", "/", "p", "l", "a", "i", "n">>
                 THEN IF part.decodes
                      THEN [parsed_email EXCEPT !.text_body = Some(part.text)]
                      ELSE [parsed_email EXCEPT !.raised = TRUE]
                 ELSE IF part.content_type = <<"t", "e", "x", "t", "/", "h", "t", "m", "l">>
                 THEN _process_html_content(part, parsed_email)
                 ELSE _process_attachment(part, parsed_email)

-----------------------------------------------------------------------------
(* Statistics and history *)

\* Stats() after __post_init__
NewStats ==
    [total_messages |-> 0, delivered_messages |-> 0, failed_messages |-> 0,
     ip_stats |-> << >>, recipient_stats |-> << >>]

\* Variant: the count of a key already present is not raised
Increment_new_keys_only(d, key) ==
    IF \E i \in 1 .. Len(d) : d[i].key = key
    THEN d
    ELSE Append(d, [key |-> key, count |-> 1])

\* d[key] = d.get(key, 0) + 1 on a dictionary kept as a sequence of
\* [key, count] items in insertion order
Increment(d, key) ==
    IF \E i \in 1 .. Len(d) : d[i].key = key
    THEN [i \in 1 .. Len(d) |->
            IF d[i].key = key THEN [d[i] EXCEPT !.count = @ + 1] ELSE d[i]]
    ELSE Append(d, [key |-> key, count |-> 1])

RECURSIVE IncrementAll(_, _)
IncrementAll(d, keys) ==
    IF keys = << >> THEN d ELSE IncrementAll(Increment(d, Head(keys)), Tail(keys))

\* Stats.record_message(ip, recipients)
record_message(st, ip, recipients) ==
    [st EXCEPT
        !.total_messages = @ + 1,
        !.ip_stats = IF ip # None THEN Increment(@, Get(ip)) ELSE @,
        !.recipient_stats = IncrementAll(@, recipients)]

\* Variant: every delivery counts as delivered, a failed one as failed too
record_delivery_always_delivered(st, success) ==
    IF success
    THEN [st EXCEPT !.delivered_messages = @ + 1]
    ELSE [st EXCEPT !.delivered_messages = @ + 1, !.failed_messages = @ + 1]

\* Stats.record_delivery(success)
record_delivery(st, success) ==
    IF success
    THEN [st EXCEPT !.delivered_messages = @ + 1]
    ELSE [st EXCEPT !.failed_messages = @ + 1]

\* Variant: a full history drops its newest entry
deque_append_drop_newest(dq, x) ==
    IF Len(dq) >= max_stored_messages
    THEN Append(SubSeq(dq, 1, Len(dq) - 1), x)
    ELSE Append(dq, x)

\* deque(maxlen=max_stored_messages).append(message_dict)
deque_append(dq, x) ==
    IF Len(dq) >= max_stored_messages THEN Append(Tail(dq), x) ELSE Append(dq, x)

-----------------------------------------------------------------------------
(* Bounded retry *)

\* Outcomes of one awaited transport call
Ok == [kind |-> "ok", retry_after |-> 0]
RetryAfter(seconds) == [kind |-> "RetryAfter", retry_after |-> seconds]
TelegramError == [kind |-> "TelegramError", retry_after |-> 0]
OtherError == [kind |-> "Exception", retry_after |-> 0]

\* asyncio.CancelledError, raised at the await a cancelled task is suspended in
CancelledError == [kind |-> "CancelledError", retry_after |-> 0]

\* Variant: CancelledError is caught like any other exception
IsException_also_cancellation(outcome) ==
    outcome.kind \in {"RetryAfter", "TelegramError", "Exception", "CancelledError"}

\* `except Exception` catches the outcome: CancelledError derives from
\* BaseException and is not caught
IsException(outcome) == outcome.kind \in {"RetryAfter", "TelegramError", "Exception"}

\* CustomSMTPHandler._execute_with_retry: what the loop body does with the
\* outcome of attempt number `attempt`, the backoff delay being `delay`
_execute_with_retry(attempt, delay, outcome) ==
    IF outcome.kind = "ok"
    THEN [do |-> "return", sleep |-> 0, delay |-> delay]
    ELSE IF outcome.kind = "RetryAfter"
    THEN [do |-> "sleep", sleep |-> outcome.retry_after, delay |-> delay]
    ELSE IF outcome.kind = "TelegramError"
    THEN IF attempt >= _telegram_retry_attempts
         THEN [do |-> "raise", sleep |-> 0, delay |-> delay]
         ELSE [do |-> "sleep", sleep |-> delay,
               delay |-> Min(delay * 2, _telegram_retry_max_delay)]
    ELSE [do |-> "raise", sleep |-> 0, delay |-> delay]

\* Variant: the loop runs one iteration too many
has_next_attempt_one_more(attempt) == attempt <= _telegram_retry_attempts

\* for attempt in range(1, attempts + 1): whether the loop has a further
\* iteration after attempt number `attempt`
has_next_attempt(attempt) == attempt + 1 <= _telegram_retry_attempts

-----------------------------------------------------------------------------
(* The handler tasks *)

NoDestination == [chat_id |-> << >>, message_thread_id |-> None, silent |-> FALSE]

NoMessage ==
    [subject |-> None, text_body |-> None, html_body |-> None,
     plain_from_html |-> None, attachments |-> << >>]

\* A task before its handler is invoked.  valid is what validate_envelope
\* returned; attempted and results are the destinations send_to_telegram was
\* called for and the values it returned to handle_DATA, for the message in
\* hand; ended tells how the last transport operation ended ("returned":
\* normally, "raised": with an exception); media_files is the local of
\* send_to_telegram that holds the regular attachments by media type.
IdleTask ==
    [pc |-> "idle", caller |-> "", n |-> 0, envelope |-> None,
     valid |-> <<FALSE, "">>, status |-> None,
     message_dict |-> NoMessage, local_recipients |-> << >>,
     idx |-> 0, destination |-> NoDestination, attempted |-> << >>, results |-> << >>,
     media_files |-> _prepare_media_files(<< >>),
     todo |-> << >>, success |-> TRUE, attempt |-> 1,
     delay |-> _telegram_retry_base_delay, sleep |-> 0, slept |-> << >>,
     ended |-> "", result |-> None]

\* Variant: the parameters of the first destination are kept for the later
\* destinations of the message
EnterSend_keeps_destination(tk, destination) ==
    [tk EXCEPT !.pc = "sending",
               !.destination = IF tk.attempted = << >> THEN destination ELSE @,
               !.attempted = Append(@, destination),
               !.media_files =
                   _prepare_media_files(
                       SelectSeq(tk.message_dict.attachments, LAMBDA a : ~a.generated_html)),
               !.todo = send_to_telegram(tk.message_dict), !.success = TRUE,
               !.attempt = 1, !.delay = _telegram_retry_base_delay,
               !.slept = << >>, !.ended = "", !.result = None]

\* send_to_telegram is entered for `destination`: the operations of the
\* selected branch are pending
EnterSend(tk, destination) ==
    [tk EXCEPT !.pc = "sending", !.destination = destination,
               !.attempted = Append(@, destination),
               !.media_files =
                   _prepare_media_files(
                       SelectSeq(tk.message_dict.attachments, LAMBDA a : ~a.generated_html)),
               !.todo = send_to_telegram(tk.message_dict), !.success = TRUE,
               !.attempt = 1, !.delay = _telegram_retry_base_delay,
               !.slept = << >>, !.ended = "", !.result = None]

\* The pending operation has completed (or _execute_with_retry has returned)
StepDone(tk) ==
    [tk EXCEPT !.pc = "sending", !.todo = Tail(@), !.attempt = 1,
               !.delay = _telegram_retry_base_delay, !.sleep = 0,
               !.ended = "returned"]

\* An exception left the pending operation: the handler that catches it
StepFailed(tk) ==
    LET s == Head(tk.todo)
        base == [tk EXCEPT !.pc = "sending", !.attempt = 1,
                           !.delay = _telegram_retry_base_delay, !.sleep = 0,
                           !.ended = "raised"]
    IN  CASE s.onfail = "raise" ->
               [base EXCEPT !.todo = << >>, !.success = FALSE]
          [] s.onfail = "return_false" ->
               [base EXCEPT !.todo = Tail(@), !.success = @ /\ ~s.counts]
          [] s.onfail = "fallback_with_text" ->
               [base EXCEPT !.todo = <<send_message_step(Get(s.text))>>
                                \o _send_files_individually(s.media_type, s.files, TRUE)
                                \o Tail(@)]
          [] OTHER ->
               [base EXCEPT !.todo = _send_files_individually(s.media_type, s.files, s.counts)
                                \o Tail(@)]

\* The record of one call handed to the transport
CallRecord(t, tk, outcome) ==
    LET s == Head(tk.todo)
    IN  [task |-> t, n |-> tk.n, delivery |-> tk.idx, op |-> s.op,
         chat_id |-> tk.destination.chat_id,
         message_thread_id |->
            IF tk.destination.message_thread_id = None
               \/ Get(tk.destination.message_thread_id) = << >>
            THEN None ELSE tk.destination.message_thread_id,
         silent |-> tk.destination.silent,
         text |-> s.text, parse_mode |-> s.parse_mode,
         media_type |-> s.media_type,
         files |-> [k \in 1 .. Len(s.files) |-> s.files[k].filename],
         retry |-> s.retry, attempt |-> tk.attempt, outcome |-> outcome]

\* The possible outcomes of a transport call
RetryAfterSeconds == {7}
Outcomes == {Ok, TelegramError, OtherError} \cup {RetryAfter(x) : x \in RetryAfterSeconds}

\* One awaited transport call of the pending operation ends with `outcome`
Attempt(t, outcome) ==
    /\ task[t].pc = "sending"
    /\ task[t].todo # << >>
    /\ outcome.kind # "ok" => failures < MaxFailures
    /\ LET tk == task[t]
           s == Head(tk.todo)
           r == _execute_with_retry(tk.attempt, tk.delay, outcome)
       IN  /\ calls' = Append(calls, CallRecord(t, tk, outcome))
           /\ failures' = IF outcome.kind = "ok" THEN failures ELSE failures + 1
           /\ task' = [task EXCEPT ![t] =
                 IF outcome.kind = "ok" THEN StepDone(tk)
                 ELSE IF s.retry /\ r.do = "sleep"
                 THEN [tk EXCEPT !.pc = "sleeping", !.sleep = r.sleep,
                                 !.delay = r.delay, !.slept = Append(@, r.sleep)]
                 ELSE StepFailed(tk)]
    /\ UNCHANGED <<stats, messages, received, observed, helper, reporter>>

\* asyncio.sleep returns inside _execute_with_retry: the next attempt, or
\* the end of the loop
Wake(t) ==
    /\ task[t].pc = "sleeping"
    /\ task' = [task EXCEPT ![t] =
          IF has_next_attempt(task[t].attempt)
          THEN [task[t] EXCEPT !.pc = "sending", !.attempt = @ + 1, !.sleep = 0]
          ELSE StepDone(task[t])]
    /\ UNCHANGED <<stats, messages, calls, failures, received, observed, helper, reporter>>

\* send_to_telegram returns
Return(t) ==
    /\ task[t].pc = "sending"
    /\ task[t].todo = << >>
    /\ task' = [task EXCEPT ![t] = [@ EXCEPT !.pc = "returned", !.result = Some(task[t].success)]]
    /\ observed' = [observed EXCEPT !.completed = @ + 1]
    /\ UNCHANGED <<stats, messages, calls, failures, received, helper, reporter>>

-----------------------------------------------------------------------------
(* The history of a run *)

\* Nothing has happened yet.  validated: envelopes validate_envelope
\* accepted; extracted: those whose content extraction then returned;
\* senders, recipients: the peer addresses and the envelope recipients of the
\* messages that reached record_message, as bags; sends: send_to_telegram
\* invocations; completed: those that returned; accepted: messages answered
\* with 250; cancelled: the numbers of the messages whose handler task was
\* cancelled
NothingObserved ==
    [validated |-> 0, extracted |-> 0, senders |-> EmptyBag, recipients |-> EmptyBag,
     sends |-> 0, completed |-> 0, accepted |-> 0, cancelled |-> {}]

RECURSIVE BagOfSeq(_)
BagOfSeq(s) == IF s = << >> THEN EmptyBag ELSE SetToBag({Head(s)}) (+) BagOfSeq(Tail(s))

\* handle_DATA has been invoked with `envelope`
ObserveMessage(obs, envelope) ==
    LET valid == validate_envelope(envelope)[1]
        extracted == valid /\ ~extract_message_content(envelope.email).raised
    IN  [obs EXCEPT
            !.validated = IF valid THEN @ + 1 ELSE @,
            !.extracted = IF extracted THEN @ + 1 ELSE @,
            !.senders = IF extracted /\ envelope.peer # None
                        THEN @ (+) SetToBag({Get(envelope.peer)}) ELSE @,
            !.recipients = IF extracted THEN @ (+) BagOfSeq(envelope.rcpt_tos) ELSE @]

\* No helper function has been called on its own
NoHelper == [fn |-> "", arg |-> << >>, result |-> << >>]

-----------------------------------------------------------------------------
(* handle_DATA *)

\* Variant: the message is recorded in the statistics before it is validated
handle_DATA_entry_records_first(tk, st, envelope) ==
    LET v == validate_envelope(envelope)
        parsed_email == extract_message_content(envelope.email)
        has_local_recipients ==
            \E k \in 1 .. Len(envelope.rcpt_tos) : _is_local_recipient(envelope.rcpt_tos[k])
        recorded == record_message(st, envelope.peer, envelope.rcpt_tos)
    IN  IF ~v[1]
        THEN [task |-> [tk EXCEPT !.pc = "done", !.valid = v, !.status = Some(v[2])],
              stats |-> recorded]
        ELSE IF parsed_email.raised
        THEN [task |-> [tk EXCEPT !.pc = "done", !.valid = v,
                           !.status = Some("451 Requested action aborted: local error in processing")],
              stats |-> recorded]
        ELSE [task |-> [tk EXCEPT !.pc = "deliver", !.idx = 1, !.valid = v,
                           !.message_dict =
                               [subject |-> parsed_email.subject,
                                text_body |-> parsed_email.text_body,
                                html_body |-> parsed_email.html_body,
                                plain_from_html |-> None,
                                attachments |-> parsed_email.attachments],
                           !.local_recipients =
                               IF has_local_recipients
                               THEN _handle_local_delivery(envelope.rcpt_tos)
                               ELSE << >>],
              stats |-> recorded]

\* handle_DATA up to the delivery loop: validation, extraction, message_dict
\* (which has no plain_from_html key), record_message, _handle_local_delivery.
\* The result is the task and the statistics it leaves.
handle_DATA_entry(tk, st, envelope) ==
    LET v == validate_envelope(envelope)
        parsed_email == extract_message_content(envelope.email)
        has_local_recipients ==
            \E k \in 1 .. Len(envelope.rcpt_tos) : _is_local_recipient(envelope.rcpt_tos[k])
    IN  IF ~v[1]
        THEN [task |-> [tk EXCEPT !.pc = "done", !.valid = v, !.status = Some(v[2])],
              stats |-> st]
        ELSE IF parsed_email.raised
        THEN [task |-> [tk EXCEPT !.pc = "done", !.valid = v,
                           !.status = Some("451 Requested action aborted: local error in processing")],
              stats |-> st]
        ELSE [task |-> [tk EXCEPT !.pc = "deliver", !.idx = 1, !.valid = v,
                           !.message_dict =
                               [subject |-> parsed_email.subject,
                                text_body |-> parsed_email.text_body,
                                html_body |-> parsed_email.html_body,
                                plain_from_html |-> None,
                                attachments |-> parsed_email.attachments],
                           !.local_recipients =
                               IF has_local_recipients
                               THEN _handle_local_delivery(envelope.rcpt_tos)
                               ELSE << >>],
              stats |-> record_message(st, envelope.peer, envelope.rcpt_tos)]

\* handle_DATA is invoked with an envelope
handle_DATA(t, envelope) ==
    /\ task[t].pc \in {"idle", "done"}
    /\ received' = received + 1
    /\ LET r == handle_DATA_entry(
                   [IdleTask EXCEPT !.caller = "handle_DATA", !.n = received + 1,
                                    !.envelope = Some(envelope)],
                   stats, envelope)
       IN  /\ task' = [task EXCEPT ![t] = r.task]
           /\ stats' = r.stats
    /\ calls' = SelectSeq(calls, LAMBDA c : c.task # t)
    /\ observed' = ObserveMessage(observed, envelope)
    /\ UNCHANGED <<messages, failures, helper, reporter>>

\* The delivery loop of handle_DATA calls send_to_telegram for the next
\* local recipient
StartDelivery(t) ==
    /\ task[t].pc = "deliver"
    /\ task[t].idx <= Len(task[t].local_recipients)
    /\ task' = [task EXCEPT ![t] = EnterSend(@, @.local_recipients[@.idx])]
    /\ observed' = [observed EXCEPT !.sends = @ + 1]
    /\ UNCHANGED <<stats, messages, calls, failures, received, helper, reporter>>

\* Variant: the delivery loop stops at the first failed delivery
RecordDelivery_stop_on_failure(t) ==
    /\ task[t].pc = "returned"
    /\ task[t].caller = "handle_DATA"
    /\ stats' = record_delivery(stats, Get(task[t].result))
    /\ task' = [task EXCEPT ![t] =
          [@ EXCEPT !.pc = "deliver",
                    !.idx = IF Get(task[t].result) THEN @ + 1
                            ELSE Len(task[t].local_recipients) + 1,
                    !.results = Append(@, Get(task[t].result))]]
    /\ UNCHANGED <<messages, calls, failures, received, observed, helper, reporter>>

\* self.stats.record_delivery(success), then the next recipient
RecordDelivery(t) ==
    /\ task[t].pc = "returned"
    /\ task[t].caller = "handle_DATA"
    /\ stats' = record_delivery(stats, Get(task[t].result))
    /\ task' = [task EXCEPT ![t] =
          [@ EXCEPT !.pc = "deliver", !.idx = @ + 1,
                    !.results = Append(@, Get(task[t].result))]]
    /\ UNCHANGED <<messages, calls, failures, received, observed, helper, reporter>>

\* Variant: a failed delivery turns the reply into a 451
Finish_451_on_failure(t) ==
    /\ task[t].pc = "deliver"
    /\ task[t].idx > Len(task[t].local_recipients)
    /\ messages' = deque_append(messages, [n |-> task[t].n, message_dict |-> task[t].message_dict])
    /\ task' = [task EXCEPT ![t] =
          [@ EXCEPT !.pc = "done",
                    !.status = IF \E k \in 1 .. Len(task[t].results) : ~task[t].results[k]
                               THEN Some("451 Requested action aborted: local error in processing")
                               ELSE Some("250 Message accepted for delivery")]]
    /\ observed' = [observed EXCEPT !.accepted = @ + 1]
    /\ UNCHANGED <<stats, calls, failures, received, helper, reporter>>

\* After the loop: self.messages.append(message_dict) and the 250 reply
Finish(t) ==
    /\ task[t].pc = "deliver"
    /\ task[t].idx > Len(task[t].local_recipients)
    /\ messages' = deque_append(messages, [n |-> task[t].n, message_dict |-> task[t].message_dict])
    /\ task' = [task EXCEPT ![t] =
          [@ EXCEPT !.pc = "done", !.status = Some("250 Message accepted for delivery")]]
    /\ observed' = [observed EXCEPT !.accepted = @ + 1]
    /\ UNCHANGED <<stats, calls, failures, received, helper, reporter>>

\* The task running handle_DATA is cancelled while it is suspended in the
\* transport call it has issued or in a retry sleep: CancelledError is raised
\* at that await and passes the `except` clauses of _execute_with_retry and
\* the `except Exception` handlers of the sending functions, of
\* send_to_telegram and of handle_DATA
Cancel(t) ==
    /\ task[t].caller = "handle_DATA"
    /\ \/ task[t].pc = "sending" /\ task[t].todo # << >>
       \/ task[t].pc = "sleeping"
    /\ calls' = IF task[t].pc = "sending"
                THEN Append(calls, CallRecord(t, task[t], CancelledError))
                ELSE calls
    /\ task' = [task EXCEPT ![t] =
          IF IsException(CancelledError)
          THEN StepFailed(@)
          ELSE [@ EXCEPT !.pc = "cancelled", !.todo = << >>, !.sleep = 0,
                         !.ended = "raised"]]
    /\ observed' = [observed EXCEPT !.cancelled = @ \cup {task[t].n}]
    /\ UNCHANGED <<stats, messages, failures, received, helper, reporter>>

\* send_to_telegram called on its own, as the unit tests do
CallSend(t, message_dict, destination) ==
    /\ task[t].pc = "idle"
    /\ received' = received + 1
    /\ task' = [task EXCEPT ![t] =
          EnterSend([IdleTask EXCEPT !.caller = "direct", !.n = received + 1, !.idx = 1,
                                     !.message_dict = message_dict], destination)]
    /\ calls' = SelectSeq(calls, LAMBDA c : c.task # t)
    /\ observed' = [observed EXCEPT !.sends = @ + 1]
    /\ UNCHANGED <<stats, messages, failures, helper, reporter>>

-----------------------------------------------------------------------------
(* Statistics reporting *)

\* Stats.reset()
reset(st) ==
    [st EXCEPT !.total_messages = 0, !.delivered_messages = 0, !.failed_messages = 0,
               !.ip_stats = << >>, !.recipient_stats = << >>]

\* Stats.generate_report(): the figures the report text lists
generate_report(st) ==
    [total_messages |-> st.total_messages,
     delivered_messages |-> st.delivered_messages,
     failed_messages |-> st.failed_messages,
     ip_stats |-> st.ip_stats, recipient_stats |-> st.recipient_stats]

\* No send_stats call is in progress.  reports: number of send_stats calls
\* so far; reported: the sums of the counters of the reports generated so far
IdleReporter ==
    [pc |-> "idle", report |-> None, reports |-> 0,
     reported |-> [total_messages |-> 0, delivered_messages |-> 0, failed_messages |-> 0]]

\* send_stats up to its await: the report is generated and handed to
\* bot.send_message (the admin chat is configured; the report is never empty)
send_stats(dummy) ==
    /\ reporter.pc = "idle"
    /\ reporter' = [reporter EXCEPT
          !.pc = "sending", !.report = Some(generate_report(stats)), !.reports = @ + 1,
          !.reported = [total_messages |-> @.total_messages + stats.total_messages,
                        delivered_messages |-> @.delivered_messages + stats.delivered_messages,
                        failed_messages |-> @.failed_messages + stats.failed_messages]]
    /\ UNCHANGED <<stats, messages, task, calls, failures, received, observed, helper>>

\* bot.send_message returns or raises: the exception is logged, and in
\* either case the `finally` clause resets the statistics
send_stats_finally(outcome) ==
    /\ reporter.pc = "sending"
    /\ stats' = reset(stats)
    /\ reporter' = [reporter EXCEPT !.pc = "idle"]
    /\ UNCHANGED <<messages, task, calls, failures, received, observed, helper>>

-----------------------------------------------------------------------------
(* Helper functions called on their own, as the unit tests do *)

\* The helper fn is called with arg and returns result
CallHelper(fn, arg, result) ==
    /\ helper' = [fn |-> fn, arg |-> arg, result |-> result]
    /\ UNCHANGED <<stats, messages, task, calls, failures, received, observed, reporter>>

Call_parse(local_name) ==
    CallHelper("LocalRecipient.parse", local_name, LocalRecipient_parse(local_name))

Call_resolve_local_recipient(local_name) ==
    CallHelper("_resolve_local_recipient", local_name, _resolve_local_recipient(local_name))

Call_handle_local_delivery(rcpt_tos) ==
    CallHelper("_handle_local_delivery", rcpt_tos, _handle_local_delivery(rcpt_tos))

\* The characters a slice of the message text stands for
SliceText(text, slice) ==
    SubSeq(text, slice.lo + 1, slice.hi) \o (IF slice.dots THEN <<".", ".", ".">> ELSE << >>)

Call_split_text(text, max_length) ==
    CallHelper("_split_text", [text |-> text, max_length |-> max_length],
               LET chunks == _split_text(Len(text), max_length)
               IN  [k \in 1 .. Len(chunks) |-> SliceText(text, chunks[k])])

Call_prepare_media_files(attachments) ==
    CallHelper("_prepare_media_files", attachments, _prepare_media_files(attachments))

Call_extract_message_content(email_message) ==
    CallHelper("extract_message_content", email_message,
               extract_message_content(email_message))

\* parser = _HTMLToTextParser(); parser.feed(html); parser.get_text()
Call_HTMLToTextParser(items) ==
    CallHelper("_HTMLToTextParser", items, get_text(feed(NewParser, items)))

-----------------------------------------------------------------------------
(* Inputs *)

\* The sequences over the set S of length at most n
SeqsUpTo(S, n) == UNION {[1 .. k -> S] : k \in 0 .. n}

\* Local parts: every string of the separators and a few characters, and
\* the names of the unit tests
LocalNameChars == {"i", "d", "7", "!", "_", ".", "s"}

FlagSuffixes == {<< >>, <<".", "s">>, <<".", "s", "i", "l", "e", "n", "t">>, <<".", "x">>, <<".", "x", ".", "s">>, <<".", "s", "s">>}

LocalNames ==
    SeqsUpTo(LocalNameChars, MaxLocalNameLen)
        \cup {<<"-", "1", "0", "0", "1", "2", "3", "4", "5", ".", "s">>, <<"-", "1", "0", "0", "1", "2", "3", "4", "5", "!", "5", "5", ".", "s">>, <<"i", "d", "1", "2", "3", "4", "5">>, <<"i", "d", "1", "2", "3">>, <<"d", "a", "v", "i", "d">>}
        \cup {name \o suffix : name \in DOMAIN recipient_aliases \cup {<<"b", "o", "b">>, <<"-", "1", "0", "0", "!", "5", "5">>},
                                suffix \in FlagSuffixes}

Att(filename, content_type, size) ==
    [filename |-> filename, content_type |-> content_type, size |-> size,
     generated_html |-> FALSE]

GeneratedHtml ==
    [filename |-> "message.html", content_type |-> <<"t", "e", "x", "t", "/", "h", "t", "m", "l">>, size |-> 200,
     generated_html |-> TRUE]

Pdf1 == Att("a.pdf", <<"a", "p", "p", "l", "i", "c", "a", "t", "i", "o", "n", "/", "p", "d", "f">>, 10)
Pdf2 == Att("b.pdf", <<"a", "p", "p", "l", "i", "c", "a", "t", "i", "o", "n", "/", "p", "d", "f">>, 10)
Png1 == Att("a.png", <<"i", "m", "a", "g", "e", "/", "p", "n", "g">>, 10)
Png2 == Att("b.png", <<"I", "m", "a", "g", "e", "/", "P", "N", "G">>, 10)
Mp3a == Att("a.mp3", <<"a", "u", "d", "i", "o", "/", "m", "p", "e", "g">>, 10)
Mp3b == Att("b.mp3", <<"a", "u", "d", "i", "o", "/", "m", "p", "e", "g">>, 10)
Gif1 == Att("a.gif", <<"i", "m", "a", "g", "e", "/", "g", "i", "f">>, 10)
Empty1 == Att("empty.bin", <<"a", "p", "p", "l", "i", "c", "a", "t", "i", "o", "n", "/", "o", "c", "t", "e", "t", "-", "s", "t", "r", "e", "a", "m">>, 0)

AttachmentLists ==
    { << >>, <<GeneratedHtml>>, <<GeneratedHtml, GeneratedHtml>>, <<Pdf1>>, <<Pdf1, GeneratedHtml>>, <<Png1, Png2>>,
      <<Mp3a, Mp3b>>, <<Pdf1, Pdf2, GeneratedHtml>>, <<Png1, Pdf1>>,
      <<Png1, Mp3a, GeneratedHtml>>, <<Gif1, Png1>>, <<Empty1>> }

\* Content types: those of the MEDIA_TYPES table in either case, types that
\* only share a beginning with them, and types the table does not know
ContentTypes ==
    { <<"i", "m", "a", "g", "e", "/", "g", "i", "f">>,
      <<"I", "M", "A", "G", "E", "/", "G", "I", "F">>,
      <<"i", "m", "a", "g", "e", "/", "g", "i", "f", "+", "x">>,
      <<"i", "m", "a", "g", "e", "/", "p", "n", "g">>,
      <<"i", "m", "a", "g", "e", "/", "j", "p", "e", "g">>,
      <<"I", "m", "a", "g", "e", "/", "P", "N", "G">>,
      <<"a", "p", "p", "l", "i", "c", "a", "t", "i", "o", "n", "/", "p", "n", "g">>,
      <<"a", "p", "p", "l", "i", "c", "a", "t", "i", "o", "n", "/", "j", "p", "g">>,
      <<"a", "p", "p", "l", "i", "c", "a", "t", "i", "o", "n", "/", "j", "p", "e", "g">>,
      <<"v", "i", "d", "e", "o", "/", "m", "p", "4">>,
      <<"a", "p", "p", "l", "i", "c", "a", "t", "i", "o", "n", "/", "m", "p", "4">>,
      <<"a", "p", "p", "l", "i", "c", "a", "t", "i", "o", "n", "/", "m", "p", "e", "g">>,
      <<"a", "u", "d", "i", "o", "/", "o", "g", "g">>,
      <<"a", "u", "d", "i", "o", "/", "m", "p", "e", "g">>,
      <<"a", "p", "p", "l", "i", "c", "a", "t", "i", "o", "n", "/", "o", "g", "g">>,
      <<"a", "p", "p", "l", "i", "c", "a", "t", "i", "o", "n", "/", "m", "p", "3">>,
      <<"a", "p", "p", "l", "i", "c", "a", "t", "i", "o", "n", "/", "w", "a", "v">>,
      <<"a", "p", "p", "l", "i", "c", "a", "t", "i", "o", "n", "/", "p", "d", "f">>,
      <<"a", "p", "p", "l", "i", "c", "a", "t", "i", "o", "n", "/", "o", "c", "t", "e", "t", "-", "s", "t", "r", "e", "a", "m">>,
      <<"t", "e", "x", "t", "/", "p", "l", "a", "i", "n">>,
      <<"t", "e", "x", "t", "/", "h", "t", "m", "l">>,
      <<"i", "m", "a", "g", "e">>,
      <<"g", "i", "f">>,
      <<"v", "i", "d", "e", "o">>,
      <<"x", "a", "u", "d", "i", "o", "/", "o", "g", "g">>,
      <<>> }

\* The attachments of test_prepare_media_files_grouping
GroupingTestAttachments ==
    <<Att("img.png", <<"i", "m", "a", "g", "e", "/", "p", "n", "g">>, 1), Att("video.mp4", <<"v", "i", "d", "e", "o", "/", "m", "p", "4">>, 1), Att("audio.ogg", <<"a", "u", "d", "i", "o", "/", "o", "g", "g">>, 1),
      Att("anim.gif", <<"i", "m", "a", "g", "e", "/", "g", "i", "f">>, 1), Att("doc.pdf", <<"a", "p", "p", "l", "i", "c", "a", "t", "i", "o", "n", "/", "p", "d", "f">>, 1)>>

\* Attachment lists for the classifier: one attachment of every content
\* type, with and without content, and lists of several attachments
ClassifierInputs ==
    { <<Att("file", content_type, size)>> : content_type \in ContentTypes, size \in {0, 1} }
        \cup { GroupingTestAttachments, << >>, <<Gif1, Png1, Png2>>, <<Png1, Empty1, Gif1, Pdf1>>,
               <<Mp3a, Pdf1, Mp3b, Pdf2>>, <<Pdf1, Png1, Pdf1, Empty1>> }

\* The texts the text helpers are called with
HelperTexts == SeqsUpTo({"a", "b"}, MaxTextLen)

\* The items of a markup
StartTag(tag, href) == [kind |-> "start", tag |-> tag, href |-> href, data |-> << >>]
EndTag(tag) == [kind |-> "end", tag |-> tag, href |-> << >>, data |-> << >>]
Text(data) == [kind |-> "text", tag |-> "", href |-> << >>, data |-> data]

\* Number of items of the enumerated markups
MaxHtmlItems == 3

\* The line feed and indentation between two tags of the test's document
Indent == <<"\n", " ", " ">>

\* The document of test_html_parser_skips_style_and_script_content: its
\* style, title, h1, p and script elements with the line feeds between them,
\* the texts shortened
SkipsStyleAndScriptHtml ==
    <<Text(Indent),
      StartTag("style", << >>),
      Text(<<".", "h", "i", "d", "d", "e", "n", "{", "}">>),
      EndTag("style"),
      Text(Indent),
      StartTag("title", << >>),
      Text(<<"I", "g", "n", "o", "r", "e">>),
      EndTag("title"),
      Text(Indent),
      StartTag("h1", << >>),
      Text(<<"Y", "o", "u", "r", " ", "c", "o", "d", "e">>),
      EndTag("h1"),
      Text(Indent),
      StartTag("p", << >>),
      Text(<<"U", "s", "e", " ", "i", "t">>),
      EndTag("p"),
      Text(Indent),
      StartTag("script", << >>),
      Text(<<"l", "o", "g", "(", "'", "x", "'", ")">>),
      EndTag("script"),
      Text(Indent)>>

HtmlItems ==
    {StartTag("p", << >>), EndTag("p"),
     StartTag("a", <<"u", ".", "i", "o">>), EndTag("a"),
     StartTag("style", << >>), EndTag("style"),
     StartTag("script", << >>), EndTag("script"),
     StartTag("title", << >>), EndTag("title"),
     Text(<<"H", "i">>), Text(<<".", "x", "{", "}">>), Text(<<"a", "&", "l", "t", ";", "b">>), Text(<<"u", ".", "i", "o">>)}

\* The markups the converter is called with
HtmlInputs == SeqsUpTo(HtmlItems, MaxHtmlItems) \cup {SkipsStyleAndScriptHtml}

\* [subject, text_body, plain_from_html, html_body]
Txt(subject, text_body, plain_from_html, html_body) ==
    [subject |-> subject, text_body |-> text_body,
     plain_from_html |-> plain_from_html, html_body |-> html_body]

Texts ==
    { Txt(None, None, None, None),
      Txt(Some(StrOf(4, 0, 0)), Some(StrOf(10, 0, 0)), None, None),
      Txt(Some(StrOf(4, 0, 0)), Some(StrOf(1000, 4, 0)), None, None),
      Txt(None, Some(StrOf(CaptionLimit, 0, 0)), None, None),
      Txt(None, Some(StrOf(ChunkLimit, 0, 0)), None, None),
      Txt(Some(StrOf(4, 0, 0)), Some(StrOf(2 * ChunkLimit - 4, 0, 0)), None, None),
      Txt(Some(StrOf(4, 0, 0)), None, Some(StrOf(20, 0, 0)), Some(StrOf(20, 0, 2))),
      Txt(Some(StrOf(4, 0, 1)), None, None, Some(StrOf(ChunkLimit - 16, 0, 1))) }

Messages ==
    { [subject |-> x.subject, text_body |-> x.text_body,
       plain_from_html |-> x.plain_from_html, html_body |-> x.html_body,
       attachments |-> a] : x \in Texts, a \in AttachmentLists }

Destinations ==
    { [chat_id |-> <<"1", "2", "3">>, message_thread_id |-> None, silent |-> FALSE],
      [chat_id |-> <<"-", "1", "0", "0">>, message_thread_id |-> Some(<<"5", "5">>), silent |-> TRUE] }

Addr(local, domain) == [local |-> local, domain |-> domain]

Part(content_type, disposition, filename, text, plain, size, decodes) ==
    [content_type |-> content_type, disposition |-> disposition, filename |-> filename,
     text |-> text, plain |-> plain, size |-> size, decodes |-> decodes]

PlainPart == Part(<<"t", "e", "x", "t", "/", "p", "l", "a", "i", "n">>, "", "", StrOf(10, 0, 0), StrOf(0, 0, 0), 10, TRUE)
BadPlainPart == Part(<<"t", "e", "x", "t", "/", "p", "l", "a", "i", "n">>, "", "", StrOf(10, 0, 0), StrOf(0, 0, 0), 10, FALSE)
HtmlPart == Part(<<"t", "e", "x", "t", "/", "h", "t", "m", "l">>, "", "", StrOf(20, 0, 2), StrOf(20, 0, 0), 28, TRUE)
PdfPart == Part(<<"a", "p", "p", "l", "i", "c", "a", "t", "i", "o", "n", "/", "p", "d", "f">>, "attachment", "a.pdf", StrOf(0, 0, 0), StrOf(0, 0, 0), 10, TRUE)

PlainPart2 == Part(<<"t", "e", "x", "t", "/", "p", "l", "a", "i", "n">>, "", "", StrOf(12, 0, 0), StrOf(0, 0, 0), 12, TRUE)
HtmlPart2 == Part(<<"t", "e", "x", "t", "/", "h", "t", "m", "l">>, "", "", StrOf(30, 0, 2), StrOf(30, 0, 0), 38, TRUE)
EmptyHtmlPart == Part(<<"t", "e", "x", "t", "/", "h", "t", "m", "l">>, "", "", StrOf(0, 0, 0), StrOf(0, 0, 0), 0, TRUE)
AttachedHtmlPart == Part(<<"t", "e", "x", "t", "/", "h", "t", "m", "l">>, "attachment", "page.html", StrOf(20, 0, 2), StrOf(20, 0, 0), 28, TRUE)
AttachedPlainPart == Part(<<"t", "e", "x", "t", "/", "p", "l", "a", "i", "n">>, "attachment", "notes.txt", StrOf(10, 0, 0), StrOf(0, 0, 0), 10, TRUE)
InlinePngPart == Part(<<"i", "m", "a", "g", "e", "/", "p", "n", "g">>, "inline", "", StrOf(0, 0, 0), StrOf(0, 0, 0), 10, TRUE)

\* Number of parts of the enumerated multipart messages
MaxParts == 3

MessageParts ==
    {PlainPart, PlainPart2, BadPlainPart, HtmlPart, HtmlPart2, EmptyHtmlPart,
     AttachedHtmlPart, AttachedPlainPart, PdfPart, InlinePngPart}

\* The messages extract_message_content is called with: every multipart
\* message of at most MaxParts parts and every message of a single part
ExtractionInputs ==
    { [subject |-> Some(StrOf(4, 0, 0)), multipart |-> TRUE, parts |-> parts] :
         parts \in SeqsUpTo(MessageParts, MaxParts) }
    \cup { [subject |-> Some(StrOf(4, 0, 0)), multipart |-> FALSE, parts |-> <<part>>] :
             part \in MessageParts }

PlainEmail ==
    [subject |-> Some(StrOf(4, 0, 0)), multipart |-> FALSE, parts |-> <<PlainPart>>]

Emails ==
    { PlainEmail,
      [subject |-> Some(StrOf(4, 0, 0)), multipart |-> FALSE, parts |-> <<BadPlainPart>>],
      [subject |-> Some(StrOf(4, 0, 0)), multipart |-> TRUE, parts |-> <<PlainPart, PdfPart>>],
      [subject |-> Some(StrOf(0, 0, 0)), multipart |-> TRUE, parts |-> <<HtmlPart>>] }

RecipientLists ==
    { << >>,
      <<Addr(<<"1", "2", "3">>, "example.com")>>,
      <<Addr(<<"1", "2", "3">>, "example.com"), Addr(<<"a", "d", "m", "i", "n", ".", "s">>, "example.com")>>,
      <<Addr(<<"a", "!", "b", "!", "c">>, "example.com"), Addr(<<"b", "o", "b">>, "other.org"),
        Addr(<<"i", "d", "7", "_", "9">>, "example.com")>> }

\* Two local recipients
RecipientListOfTwo ==
    <<Addr(<<"1", "2", "3">>, "example.com"), Addr(<<"a", "d", "m", "i", "n", ".", "s">>, "example.com")>>

\* Three local recipients: a chat with a thread, a silent chat whose thread
\* part is empty, and a plain chat
ThreeDestinations ==
    <<Addr(<<"i", "d", "7", "_", "9">>, "example.com"),
      Addr(<<"1", "_", ".", "s">>, "example.com"),
      Addr(<<"1", "2", "3">>, "example.com")>>

Sizes == {MinContentSize - 1, MinContentSize, max_message_size, max_message_size + 1}

Env(content_size, From, To, rcpt_tos, email) ==
    Some([content_size |-> content_size, From |-> From, To |-> To,
          rcpt_tos |-> rcpt_tos, peer |-> Some("10.0.0.1"), email |-> email])

HeaderStates == {"present", "absent", "malformed"}

\* Every combination of what validate_envelope looks at, and every
\* recipient list with every message for the envelopes it accepts
Envelopes ==
    { Env(z, f, o, r, PlainEmail) :
         z \in Sizes, f \in HeaderStates, o \in HeaderStates,
         r \in {<< >>, <<Addr(<<"1", "2", "3">>, "example.com")>>} }
    \cup { Env(MinContentSize, "present", "present", r, e) :
             r \in RecipientLists, e \in Emails }

-----------------------------------------------------------------------------
(* Specifications *)

\* The handler tasks the event loop can run, and the one that runs when
\* messages are handled one after another
Handlers == {1, 2}

Tasks == {1}

Init ==
    /\ stats = NewStats
    /\ messages = << >>
    /\ task = [t \in Handlers |-> IdleTask]
    /\ calls = << >>
    /\ failures = 0
    /\ received = 0
    /\ observed = NothingObserved
    /\ helper = NoHelper
    /\ reporter = IdleReporter

\* The SMTP handler: messages arrive and are handled one after another
Next ==
    \/ \E t \in Tasks, envelope \in Envelopes :
          received < MaxMessages /\ handle_DATA(t, Get(envelope))
    \/ \E t \in Tasks : StartDelivery(t)
    \/ \E t \in Tasks, outcome \in Outcomes : Attempt(t, outcome)
    \/ \E t \in Tasks : Wake(t)
    \/ \E t \in Tasks : Return(t)
    \/ \E t \in Tasks : RecordDelivery(t)
    \/ \E t \in Tasks : Finish(t)

Spec == Init /\ [][Next]_vars

\* One send_to_telegram call on a message and a destination
NextSend ==
    \/ \E t \in Tasks, message_dict \in Messages, destination \in Destinations :
          CallSend(t, message_dict, destination)
    \/ \E t \in Tasks, outcome \in Outcomes : Attempt(t, outcome)
    \/ \E t \in Tasks : Wake(t)
    \/ \E t \in Tasks : Return(t)

SpecSend == Init /\ [][NextSend]_vars

\* The SMTP handler over a longer run of simple messages: accepted without
\* and with a local recipient, rejected at validation, failing in extraction
HistoryEnvelopes ==
    { Env(MinContentSize, "present", "present", << >>, PlainEmail),
      Env(MinContentSize, "present", "present", <<Addr(<<"1", "2", "3">>, "example.com")>>, PlainEmail),
      Env(MinContentSize - 1, "present", "present", << >>, PlainEmail),
      Env(MinContentSize, "present", "present", << >>,
          [subject |-> Some(StrOf(4, 0, 0)), multipart |-> FALSE, parts |-> <<BadPlainPart>>]) }

NextHistory ==
    \/ \E t \in Tasks, envelope \in HistoryEnvelopes :
          received < MaxHistoryMessages /\ handle_DATA(t, Get(envelope))
    \/ \E t \in Tasks : StartDelivery(t)
    \/ \E t \in Tasks, outcome \in Outcomes : Attempt(t, outcome)
    \/ \E t \in Tasks : Wake(t)
    \/ \E t \in Tasks : Return(t)
    \/ \E t \in Tasks : RecordDelivery(t)
    \/ \E t \in Tasks : Finish(t)

SpecHistory == Init /\ [][NextHistory]_vars

\* One helper function is called on its own, on any of the inputs
NextHelpers ==
    \/ helper = NoHelper /\ \E local_name \in LocalNames : Call_parse(local_name)
    \/ helper = NoHelper /\ \E local_name \in LocalNames :
          Call_resolve_local_recipient(local_name)
    \/ helper = NoHelper /\ \E local_name \in LocalNames, domain \in {"example.com", "other.org"} :
          Call_handle_local_delivery(<<Addr(local_name, domain)>>)
    \/ helper = NoHelper /\ \E attachments \in ClassifierInputs :
          Call_prepare_media_files(attachments)
    \/ helper = NoHelper /\ \E text \in HelperTexts, max_length \in 1 .. MaxChunkLen :
          Call_split_text(text, max_length)
    \/ helper = NoHelper /\ \E items \in HtmlInputs : Call_HTMLToTextParser(items)
    \/ helper = NoHelper /\ \E email_message \in ExtractionInputs :
          Call_extract_message_content(email_message)

SpecHelpers == Init /\ [][NextHelpers]_vars

\* Two SMTP sessions handled by the same event loop: a handler runs until it
\* awaits a transport call or a retry sleep, and the other may run meanwhile
ConcurrentEnvelopes ==
    { Env(MinContentSize, "present", "present", <<Addr(<<"1", "2", "3">>, "example.com")>>, PlainEmail),
      Some([Get(Env(MinContentSize, "present", "present",
                    <<Addr(<<"1", "2", "3">>, "example.com"), Addr(<<"b", "o", "b">>, "other.org")>>,
                    PlainEmail)) EXCEPT !.peer = Some("10.0.0.2")]),
      Env(MinContentSize - 1, "present", "present", << >>, PlainEmail),
      Env(MinContentSize, "present", "present", <<Addr(<<"1", "2", "3">>, "example.com")>>,
          [subject |-> Some(StrOf(4, 0, 0)), multipart |-> FALSE, parts |-> <<BadPlainPart>>]) }

NextConcurrent ==
    \/ \E t \in Handlers, envelope \in ConcurrentEnvelopes :
          received < MaxConcurrentMessages /\ handle_DATA(t, Get(envelope))
    \/ \E t \in Handlers : StartDelivery(t)
    \/ \E t \in Handlers, outcome \in {Ok, TelegramError} : Attempt(t, outcome)
    \/ \E t \in Handlers : Wake(t)
    \/ \E t \in Handlers : Return(t)
    \/ \E t \in Handlers : RecordDelivery(t)
    \/ \E t \in Handlers : Finish(t)

SpecConcurrent == Init /\ [][NextConcurrent]_vars

\* The SMTP handler whose task may be cancelled (server shutdown) while it
\* delivers a message to two local recipients
CancelEnvelopes ==
    { Env(MinContentSize, "present", "present", RecipientListOfTwo, e) : e \in Emails }

NextCancel ==
    \/ \E t \in Tasks, envelope \in CancelEnvelopes :
          received < MaxMessages /\ handle_DATA(t, Get(envelope))
    \/ \E t \in Tasks : StartDelivery(t)
    \/ \E t \in Tasks, outcome \in Outcomes : Attempt(t, outcome)
    \/ \E t \in Tasks : Wake(t)
    \/ \E t \in Tasks : Return(t)
    \/ \E t \in Tasks : RecordDelivery(t)
    \/ \E t \in Tasks : Finish(t)
    \/ \E t \in Tasks : Cancel(t)

SpecCancel == Init /\ [][NextCancel]_vars

\* Messages whose delivery takes the grouped send with its fallback, the
\* several-categories branch and the generated-HTML branch
DestinationEmails ==
    { [subject |-> Some(StrOf(4, 0, 0)), multipart |-> TRUE,
       parts |-> <<PlainPart, PdfPart, PdfPart>>],
      [subject |-> Some(StrOf(4, 0, 0)), multipart |-> TRUE,
       parts |-> <<PlainPart, PdfPart, InlinePngPart>>],
      [subject |-> Some(StrOf(0, 0, 0)), multipart |-> TRUE, parts |-> <<HtmlPart>>] }

DestinationEnvelopes ==
    { Env(MinContentSize, "present", "present", ThreeDestinations, e) :
         e \in DestinationEmails }

\* Messages handled per run of the destinations specification
MaxDestinationMessages == 1

\* The SMTP handler delivering one message to three destinations
NextDestinations ==
    \/ \E t \in Tasks, envelope \in DestinationEnvelopes :
          received < MaxDestinationMessages /\ handle_DATA(t, Get(envelope))
    \/ \E t \in Tasks : StartDelivery(t)
    \/ \E t \in Tasks, outcome \in Outcomes : Attempt(t, outcome)
    \/ \E t \in Tasks : Wake(t)
    \/ \E t \in Tasks : Return(t)
    \/ \E t \in Tasks : RecordDelivery(t)
    \/ \E t \in Tasks : Finish(t)

SpecDestinations == Init /\ [][NextDestinations]_vars

\* Number of send_stats calls of a run
MaxReports == 2

\* The SMTP handler and the statistics task on the same event loop: the
\* periodic send_stats runs between the steps of handle_DATA
NextStats ==
    \/ \E t \in Tasks, envelope \in HistoryEnvelopes :
          received < MaxMessages /\ handle_DATA(t, Get(envelope))
    \/ \E t \in Tasks : StartDelivery(t)
    \/ \E t \in Tasks, outcome \in {Ok, TelegramError} : Attempt(t, outcome)
    \/ \E t \in Tasks : Wake(t)
    \/ \E t \in Tasks : Return(t)
    \/ \E t \in Tasks : RecordDelivery(t)
    \/ \E t \in Tasks : Finish(t)
    \/ reporter.reports < MaxReports /\ send_stats(0)
    \/ \E outcome \in {Ok, TelegramError} : send_stats_finally(outcome)

SpecStats == Init /\ [][NextStats]_vars

-----------------------------------------------------------------------------
(* Properties *)

\* The transport calls of task t, in order
CallsOf(t) == SelectSeq(calls, LAMBDA c : c.task = t)

\* The call ended its operation with an exception raised to the caller of
\* the operation: a failed call made outside the retry procedure, an
\* exception the retry procedure does not catch, or a transient failure of
\* the last attempt
Raised(c) ==
    \/ c.outcome.kind # "ok" /\ ~c.retry
    \/ c.outcome.kind = "Exception"
    \/ c.outcome.kind = "TelegramError" /\ c.attempt >= _telegram_retry_attempts

Accepted250 == Some("250 Message accepted for delivery")

\* C1: send_to_telegram returns True only if no required send (a text
\* chunk, a single media item, an individual send made after a grouped batch
\* failed, a generated-HTML document) ended with an error.
C1_TrueOnlyIfEverySendSucceeded ==
    \A t \in Tasks :
        (task[t].pc = "returned" /\ task[t].result = Some(TRUE)) =>
            \A i \in 1 .. Len(CallsOf(t)) :
                ~(Raised(CallsOf(t)[i]) /\ CallsOf(t)[i].op # "send_media_group")

\* C2: an operation issued through _execute_with_retry returns normally only
\* when its last attempt succeeded; when all attempts fail it raises.
C2_RetryReturnsOnlyAfterSuccess ==
    \A t \in Tasks :
        LET cs == CallsOf(t)
        IN  (cs # << >> /\ cs[Len(cs)].retry /\ task[t].ended = "returned"
                /\ task[t].pc # "sleeping" /\ task[t].attempt = 1)
                => cs[Len(cs)].outcome.kind = "ok"

\* C3: one _execute_with_retry call invokes the action at most 3 times; a
\* rate-limit failure is followed by the next-numbered attempt of the same
\* action, like a transient failure; after a success the next invocation is
\* the first attempt of another call.
C3_AtMostThreeInvocations ==
    \A t \in Tasks :
        LET cs == CallsOf(t)
        IN  /\ \A i \in 1 .. Len(cs) : cs[i].attempt \in 1 .. 3
            /\ \A i \in 1 .. (Len(cs) - 1) :
                  /\ cs[i + 1].attempt \in {1, cs[i].attempt + 1}
                  /\ cs[i].outcome.kind = "ok" => cs[i + 1].attempt = 1
                  /\ cs[i + 1].attempt > 1 =>
                        /\ cs[i + 1].op = cs[i].op
                        /\ cs[i + 1].text = cs[i].text
                        /\ cs[i + 1].files = cs[i].files
                        /\ cs[i].outcome.kind \in {"RetryAfter", "TelegramError"}
                  /\ (cs[i].retry /\ cs[i].outcome.kind \in {"RetryAfter", "TelegramError"}
                        /\ cs[i].attempt < 3)
                        => cs[i + 1].attempt = cs[i].attempt + 1

\* C3 witness: a third attempt was made after a rate-limit failure and a
\* transient failure, and it succeeded
C3_Witness ==
    \E t \in Tasks :
        \E i \in 1 .. Len(CallsOf(t)) :
            /\ i >= 3
            /\ CallsOf(t)[i].attempt = 3
            /\ CallsOf(t)[i].outcome.kind = "ok"
            /\ CallsOf(t)[i - 1].outcome.kind = "RetryAfter"
            /\ CallsOf(t)[i - 2].outcome.kind = "TelegramError"

\* C4: every transport operation goes through the retry procedure: a
\* transient failure of the first attempt of any operation, the send_document
\* of a generated-HTML attachment included, is followed by a second attempt
\* of that operation.
C4_EveryOperationRetried ==
    \A t \in Tasks :
        LET cs == CallsOf(t)
        IN  \A i \in 1 .. Len(cs) :
                (cs[i].outcome.kind = "TelegramError" /\ cs[i].attempt = 1) =>
                    \/ i < Len(cs) /\ cs[i + 1].attempt = 2 /\ cs[i + 1].op = cs[i].op
                          /\ cs[i + 1].files = cs[i].files
                    \/ i = Len(cs) /\ task[t].pc = "sleeping"
                    \/ i = Len(cs) /\ task[t].pc = "sending" /\ task[t].attempt = 2

\* C5: handle_DATA calls send_to_telegram once per resolved destination, in
\* recipient-list order, one call finishing before the next begins, and a
\* False result does not keep the later destinations from being attempted.
C5_OneAttemptPerDestinationInOrder ==
    \A t \in Tasks :
        LET tk == task[t]
            cs == CallsOf(t)
        IN  tk.caller = "handle_DATA" =>
              /\ Len(tk.attempted) <= Len(tk.local_recipients)
              /\ tk.attempted = SubSeq(tk.local_recipients, 1, Len(tk.attempted))
              /\ Len(tk.results) <= Len(tk.attempted)
              /\ Len(tk.attempted) <= Len(tk.results) + 1
              /\ (tk.pc \in {"sending", "sleeping", "returned"})
                    <=> (Len(tk.attempted) = Len(tk.results) + 1)
              /\ tk.pc = "deliver" => tk.idx = Len(tk.results) + 1
              /\ tk.status = Accepted250 =>
                    /\ tk.attempted = tk.local_recipients
                    /\ Len(tk.results) = Len(tk.local_recipients)
              /\ \A i \in 1 .. Len(cs) :
                    /\ cs[i].delivery \in 1 .. Len(tk.attempted)
                    /\ cs[i].chat_id = tk.local_recipients[cs[i].delivery].chat_id
                    /\ \A j \in 1 .. Len(cs) : i < j => cs[i].delivery <= cs[j].delivery

\* C5 witness: a message answered with 250 whose first of two deliveries
\* returned False and whose second was attempted and returned True
C5_Witness ==
    \E t \in Tasks :
        /\ task[t].status = Accepted250
        /\ task[t].results = <<FALSE, TRUE>>
        /\ \E i \in 1 .. Len(CallsOf(t)) : CallsOf(t)[i].delivery = 2

\* C6: an envelope that passes validation and whose extraction does not
\* raise is answered with 250 however many deliveries failed; recording a
\* delivery changes nothing but the delivered / failed counter.
C6_Always250 ==
    /\ [](\A t \in Tasks :
            (task[t].caller = "handle_DATA" /\ task[t].pc = "done"
                /\ task[t].valid[1]
                /\ ~extract_message_content(Get(task[t].envelope).email).raised)
            => task[t].status = Accepted250)
    /\ [][\A t \in Tasks :
            (task[t].pc = "returned" /\ task'[t].pc = "deliver") =>
                /\ stats'.total_messages = stats.total_messages
                /\ stats'.ip_stats = stats.ip_stats
                /\ stats'.recipient_stats = stats.recipient_stats
                /\ stats'.delivered_messages + stats'.failed_messages
                      = stats.delivered_messages + stats.failed_messages + 1
                /\ task'[t].status = task[t].status
                /\ messages' = messages]_vars

\* C6 witness: a 250 reply for a message whose two deliveries both failed
C6_Witness ==
    \E t \in Tasks :
        /\ task[t].status = Accepted250
        /\ task[t].results = <<FALSE, FALSE>>

\* The reply code of an error message of validate_envelope
CodeOf(error_message) ==
    IF error_message = "" THEN ""
    ELSE IF error_message = "552 Message size exceeds fixed maximum message size"
    THEN "552" ELSE "451"

\* C7 as stated: 552 for oversized content, else 451 for content under 50
\* bytes, else 451 without a non-empty From header, else 451 with neither a
\* To header nor an envelope recipient, and every other envelope accepted
\* with an empty message.
C7_AsStated ==
    \A t \in Tasks :
        task[t].caller = "handle_DATA" =>
            LET e == Get(task[t].envelope)
                v == task[t].valid
            IN  /\ e.content_size > max_message_size => (~v[1] /\ CodeOf(v[2]) = "552")
                /\ (e.content_size <= max_message_size /\ e.content_size < 50)
                      => (~v[1] /\ CodeOf(v[2]) = "451")
                /\ (e.content_size <= max_message_size /\ e.content_size >= 50
                      /\ e.From = "absent") => (~v[1] /\ CodeOf(v[2]) = "451")
                /\ (e.content_size <= max_message_size /\ e.content_size >= 50
                      /\ e.From # "absent" /\ e.To = "absent" /\ e.rcpt_tos = << >>)
                      => (~v[1] /\ CodeOf(v[2]) = "451")
                /\ (e.content_size <= max_message_size /\ e.content_size >= 50
                      /\ e.From # "absent" /\ (e.To # "absent" \/ e.rcpt_tos # << >>))
                      => v = <<TRUE, "">>

\* C7 amended: as stated, with one more rejection: a From or To header whose
\* reading raises is answered 451 (Invalid message format), the From header
\* being read before the To header and the To header before the recipient
\* list is looked at.
C7_ValidationPriority ==
    \A t \in Tasks :
        task[t].caller = "handle_DATA" =>
            LET e == Get(task[t].envelope)
                v == task[t].valid
                sized == e.content_size <= max_message_size /\ e.content_size >= 50
            IN  /\ e.content_size > max_message_size
                      => v = <<FALSE, "552 Message size exceeds fixed maximum message size">>
                /\ (e.content_size <= max_message_size /\ e.content_size < 50)
                      => v = <<FALSE, "451 Invalid message content">>
                /\ (sized /\ e.From = "malformed")
                      => v = <<FALSE, "451 Invalid message format">>
                /\ (sized /\ e.From = "absent")
                      => v = <<FALSE, "451 Missing required header: From">>
                /\ (sized /\ e.From = "present" /\ e.To = "malformed")
                      => v = <<FALSE, "451 Invalid message format">>
                /\ (sized /\ e.From = "present" /\ e.To = "absent" /\ e.rcpt_tos = << >>)
                      => v = <<FALSE, "451 Missing required header: To">>
                /\ (sized /\ e.From = "present"
                      /\ (e.To = "present" \/ (e.To = "absent" /\ e.rcpt_tos # << >>)))
                      => v = <<TRUE, "">>

\* C7 witness: an envelope without a To header and with a recipient was
\* accepted
C7_Witness ==
    \E t \in Tasks :
        /\ task[t].caller = "handle_DATA"
        /\ Get(task[t].envelope).To = "absent"
        /\ Get(task[t].envelope).rcpt_tos # << >>
        /\ task[t].valid = <<TRUE, "">>

\* C8: an envelope rejected at validation leaves the statistics, the history
\* and the transport untouched and resolves no recipient; the reply is the
\* validation error.
C8_RejectionChangesNothing ==
    /\ [](\A t \in Tasks :
            (task[t].caller = "handle_DATA" /\ ~task[t].valid[1]) =>
                /\ task[t].pc = "done"
                /\ task[t].status = Some(task[t].valid[2])
                /\ task[t].local_recipients = << >>
                /\ task[t].attempted = << >>
                /\ CallsOf(t) = << >>
                /\ \A k \in 1 .. Len(messages) : messages[k].n # task[t].n)
    /\ [][\A t \in Tasks :
            (task'[t].n # task[t].n /\ task'[t].caller = "handle_DATA" /\ ~task'[t].valid[1])
                => (stats' = stats /\ messages' = messages)]_vars

\* C8 witness: a second envelope was rejected at validation after a first one
\* had been accepted and recorded
C8_Witness ==
    \E t \in Tasks :
        /\ task[t].caller = "handle_DATA"
        /\ ~task[t].valid[1]
        /\ task[t].n = 2
        /\ stats.total_messages = 1
        /\ Len(messages) = 1

\* The send_message calls of task t, and the first attempts among them
TextCallsOf(t) == SelectSeq(CallsOf(t), LAMBDA c : c.op = "send_message")

FirstAttempts(cs) == SelectSeq(cs, LAMBDA c : c.attempt = 1)

\* The send_message calls of task t are for the chunks of the message text,
\* in order and without a gap, a chunk being sent again only as a retry
ChunksInOrder(t) ==
    LET cs == TextCallsOf(t)
        first == FirstAttempts(cs)
        chunks == _split_text(text_of(task[t].message_dict), ChunkLimit)
    IN  /\ \A i \in 1 .. Len(cs) :
              /\ cs[i].text # None
              /\ SliceLen(Get(cs[i].text)) \in 1 .. ChunkLimit
              /\ ~Get(cs[i].text).dots
              /\ cs[i].parse_mode = Some("HTML")
              /\ cs[i].files = << >>
              /\ (cs[i].attempt > 1) => (i > 1 /\ cs[i].text = cs[i - 1].text)
        /\ Len(first) <= Len(chunks)
        /\ \A k \in 1 .. Len(first) : first[k].text = Some(chunks[k])
        /\ first # << >> => Get(first[1].text).lo = 0
        /\ \A k \in 1 .. (Len(first) - 1) :
              Get(first[k + 1].text).lo = Get(first[k].text).hi

\* The chunks sent so far by task t cover the whole message text
WholeTextSent(t) ==
    LET first == FirstAttempts(TextCallsOf(t))
    IN  (IF first = << >> THEN 0 ELSE Get(first[Len(first)].text).hi)
            = text_of(task[t].message_dict)

ReturnedTrue(t) == task[t].pc = "returned" /\ task[t].result = Some(TRUE)

OnlyGenerated(message_dict) ==
    /\ message_dict.attachments # << >>
    /\ \A k \in 1 .. Len(message_dict.attachments) :
          message_dict.attachments[k].generated_html

DocumentCallsOf(t) == SelectSeq(CallsOf(t), LAMBDA c : c.op = "send_document")

\* C10 as stated: a message whose only attachments are generated-HTML ones
\* gets its text sent first, as one or more sendText chunks.
C10_AsStated ==
    \A t \in Tasks :
        (ReturnedTrue(t) /\ OnlyGenerated(task[t].message_dict))
            => (CallsOf(t) # << >> /\ CallsOf(t)[1].op = "send_message")

\* C10 amended: for a message whose only attachments are generated-HTML
\* ones, a non-empty text is sent first, as sendText chunks in order covering
\* the full text, and an empty text is not sent; only afterwards each
\* generated attachment is sent as one sendDocument without caption, in
\* order, the first failing one ending the delivery; no other call is made;
\* one generated attachment and a non-empty text of one chunk, without
\* failures, give exactly one sendText followed by exactly one sendDocument.
C10_TextThenGeneratedDocuments ==
    \A t \in Tasks :
        OnlyGenerated(task[t].message_dict) =>
            LET cs == CallsOf(t)
                docs == DocumentCallsOf(t)
                attachments == task[t].message_dict.attachments
                text == text_of(task[t].message_dict)
            IN  /\ \A i \in 1 .. Len(cs) : cs[i].op \in {"send_message", "send_document"}
                /\ ChunksInOrder(t)
                /\ text = 0 => TextCallsOf(t) = << >>
                /\ \A i \in 1 .. Len(cs) : \A j \in 1 .. Len(cs) :
                      (i < j /\ cs[i].op = "send_document") => cs[j].op = "send_document"
                /\ docs # << >> => WholeTextSent(t)
                /\ Len(docs) <= Len(attachments)
                /\ \A k \in 1 .. Len(docs) :
                      /\ docs[k].text = None
                      /\ docs[k].parse_mode = None
                      /\ docs[k].files = <<attachments[k].filename>>
                      /\ k < Len(docs) => docs[k].outcome.kind = "ok"
                /\ ReturnedTrue(t) =>
                      /\ Len(docs) = Len(attachments)
                      /\ \A k \in 1 .. Len(docs) : docs[k].outcome.kind = "ok"
                /\ (ReturnedTrue(t) /\ Len(attachments) = 1 /\ text \in 1 .. ChunkLimit
                      /\ \A i \in 1 .. Len(cs) : cs[i].outcome.kind = "ok")
                      => /\ Len(cs) = 2
                         /\ cs[1].op = "send_message"
                         /\ cs[2].op = "send_document"

\* C10 witness: a text of three chunks, then two generated-HTML documents,
\* all sent
C10_Witness ==
    \E t \in Tasks :
        /\ ReturnedTrue(t)
        /\ OnlyGenerated(task[t].message_dict)
        /\ Len(FirstAttempts(TextCallsOf(t))) = 3
        /\ Len(DocumentCallsOf(t)) = 2
        /\ CallsOf(t)[Len(CallsOf(t))].op = "send_document"

\* C11: for a message with no text body, an HTML body whose text exceeds
\* 4096 characters and no attachments, send_to_telegram returns True after
\* exactly one send_document (message.html) and exactly one send_message
\* whose text has exactly 4096 characters, ends with "..." and is sent with
\* parse_mode None.
C11_LongHtmlOneTruncatedText ==
    \A t \in Tasks :
        LET md == task[t].message_dict
        IN  (task[t].pc = "returned" /\ md.attachments = << >>
                /\ ~Truthy(md.text_body) /\ Truthy(md.html_body)
                /\ text_of(md) > ChunkLimit
                /\ \A i \in 1 .. Len(CallsOf(t)) : CallsOf(t)[i].outcome.kind = "ok")
            => /\ task[t].result = Some(TRUE)
               /\ Len(DocumentCallsOf(t)) = 1
               /\ DocumentCallsOf(t)[1].files = <<"message.html">>
               /\ Len(TextCallsOf(t)) = 1
               /\ SliceLen(Get(TextCallsOf(t)[1].text)) = ChunkLimit
               /\ Get(TextCallsOf(t)[1].text).dots
               /\ TextCallsOf(t)[1].parse_mode = None

\* The regular attachments of a message, grouped as send_to_telegram groups
\* them, and the categories that received a file
RegularOf(message_dict) == SelectSeq(message_dict.attachments, LAMBDA a : ~a.generated_html)

CategoriesOf(t) == SelectSeq(MediaOrder, LAMBDA c : task[t].media_files[c] # << >>)

\* send_to_telegram is delivering a message whose regular attachments form
\* exactly one category; its name and files
OneCategory(t) ==
    /\ task[t].pc \in {"sending", "sleeping", "returned"}
    /\ RegularOf(task[t].message_dict) # << >>
    /\ Len(CategoriesOf(t)) = 1

CategoryOf(t) == CategoriesOf(t)[1]

FilesOf(t) == task[t].media_files[CategoryOf(t)]

FileNames(files) == [k \in 1 .. Len(files) |-> files[k].filename]

\* The calls of task t other than send_message
MediaCallsOf(t) == SelectSeq(CallsOf(t), LAMBDA c : c.op # "send_message")

\* The caption send_to_telegram computes: the text, cut to 1021 characters
\* and "..." when it is longer than 1024, absent when the text is empty
CaptionOf(message_dict) ==
    LET text == text_of(message_dict)
    IN  IF text = 0 THEN None
        ELSE IF text > CaptionLimit THEN Some(Slice(0, CaptionLimit - 3, TRUE))
        ELSE Some(Slice(0, text, FALSE))

\* C12 as stated: one category with one file and a text over 1024
\* characters: the media item is sent with no caption attached.
C12_AsStated ==
    \A t \in Tasks :
        LET md == task[t].message_dict
        IN  (OneCategory(t) /\ Len(FilesOf(t)) = 1 /\ text_of(md) > CaptionLimit)
            => \A i \in 1 .. Len(MediaCallsOf(t)) : MediaCallsOf(t)[i].text = None

\* C12 amended: one category with one file.  A text over 1024 characters is
\* sent whole first, as sendText chunks, and the media item then carries the
\* text cut to 1021 characters plus "..." as its caption; a text within the
\* limit is not sent on its own: the media item is the only operation and
\* carries the full text as caption (no caption for an empty text).
C12_SingleFileCaption ==
    \A t \in Tasks :
        LET md == task[t].message_dict
            cs == CallsOf(t)
            media == MediaCallsOf(t)
            caption == CaptionOf(md)
        IN  (OneCategory(t) /\ Len(FilesOf(t)) = 1) =>
              /\ \A i \in 1 .. Len(media) :
                    /\ media[i].op = send_op(CategoryOf(t))
                    /\ media[i].files = FileNames(FilesOf(t))
                    /\ media[i].text = caption
                    /\ media[i].parse_mode = IF caption = None THEN None ELSE Some("HTML")
                    /\ media[i].attempt = i
              /\ \A i \in 1 .. Len(cs) : \A j \in 1 .. Len(cs) :
                    (i < j /\ cs[i].op # "send_message") => cs[j].op # "send_message"
              /\ text_of(md) > CaptionLimit =>
                    /\ ChunksInOrder(t)
                    /\ media # << >> => WholeTextSent(t)
              /\ text_of(md) <= CaptionLimit => TextCallsOf(t) = << >>
              /\ ReturnedTrue(t) =>
                    /\ media # << >>
                    /\ media[Len(media)].outcome.kind \in {"ok", "RetryAfter"}

\* C12 witness: a text of three chunks was sent, then the single document
\* with the truncated caption
C12_Witness ==
    \E t \in Tasks :
        LET md == task[t].message_dict
        IN  /\ ReturnedTrue(t)
            /\ OneCategory(t) /\ Len(FilesOf(t)) = 1
            /\ Len(FirstAttempts(TextCallsOf(t))) = 3
            /\ Len(MediaCallsOf(t)) = 1
            /\ MediaCallsOf(t)[1].text = Some(Slice(0, CaptionLimit - 3, TRUE))
            /\ MediaCallsOf(t)[1].outcome.kind = "ok"

\* C13: with one document attachment and a text of 1025 .. 4096 characters
\* there is one sendText carrying the complete text and one sendDocument
\* whose caption is present; and in every delivery every caption of a media
\* item or of the first item of a media group has at most 1024 characters.
C13_CaptionWithinLimit ==
    \A t \in Tasks :
        LET md == task[t].message_dict
            text == text_of(md)
            texts == TextCallsOf(t)
            media == MediaCallsOf(t)
        IN  /\ \A i \in 1 .. Len(media) :
                  media[i].text # None => SliceLen(Get(media[i].text)) <= CaptionLimit
            /\ (OneCategory(t) /\ CategoryOf(t) = "document" /\ Len(FilesOf(t)) = 1
                  /\ text > CaptionLimit /\ text <= ChunkLimit) =>
                  /\ \A i \in 1 .. Len(texts) :
                        /\ texts[i].text = Some(Slice(0, text, FALSE))
                        /\ texts[i].attempt = i
                  /\ \A i \in 1 .. Len(media) :
                        /\ media[i].op = "send_document"
                        /\ media[i].text # None
                        /\ SliceLen(Get(media[i].text)) \in 1 .. CaptionLimit
                        /\ media[i].attempt = i
                  /\ (task[t].pc = "returned"
                        /\ \A i \in 1 .. Len(CallsOf(t)) : CallsOf(t)[i].outcome.kind = "ok")
                        => /\ task[t].result = Some(TRUE)
                           /\ Len(CallsOf(t)) = 2
                           /\ CallsOf(t)[1].op = "send_message"
                           /\ CallsOf(t)[2].op = "send_document"

\* C13 witness: a text of 1025 characters and one document were delivered
\* by one sendText and one sendDocument with a caption of 1024 characters
C13_Witness ==
    \E t \in Tasks :
        /\ ReturnedTrue(t)
        /\ text_of(task[t].message_dict) = CaptionLimit + 1
        /\ OneCategory(t) /\ CategoryOf(t) = "document" /\ Len(FilesOf(t)) = 1
        /\ Len(CallsOf(t)) = 2
        /\ CallsOf(t)[1].text = Some(Slice(0, CaptionLimit + 1, FALSE))
        /\ CallsOf(t)[2].text # None
        /\ SliceLen(Get(CallsOf(t)[2].text)) = CaptionLimit

\* send_to_telegram is delivering several files of one category that cannot
\* be grouped
SeveralUngroupable(t) ==
    OneCategory(t) /\ CategoryOf(t) \in {"audio", "animation"} /\ Len(FilesOf(t)) > 1

\* C14: one category, audio or animation, with several files: no
\* sendMediaGroup is made; every file is sent by its own call, in input
\* order, the first with the caption and the others without; the remaining
\* files are attempted when the first send fails; and the outcome is True
\* only if the first and all remaining sends succeeded.
C14_UngroupableSentIndividually ==
    \A t \in Tasks :
        SeveralUngroupable(t) =>
            LET media == FirstAttempts(MediaCallsOf(t))
                files == FilesOf(t)
            IN  /\ \A i \in 1 .. Len(media) :
                      /\ media[i].op = send_op(CategoryOf(t))
                      /\ media[i].files = <<files[i].filename>>
                      /\ media[i].text = IF i = 1 THEN CaptionOf(task[t].message_dict) ELSE None
                /\ ReturnedTrue(t) =>
                      \A k \in 1 .. Len(files) :
                          \E i \in 1 .. Len(CallsOf(t)) :
                              /\ CallsOf(t)[i].files = <<files[k].filename>>
                              /\ CallsOf(t)[i].outcome.kind = "ok"

\* send_to_telegram is delivering several files of one groupable category
SeveralGroupable(t) ==
    OneCategory(t) /\ CategoryOf(t) \in {"photo", "video", "document"} /\ Len(FilesOf(t)) > 1

\* The caption of the first item of a group: the caption, "" when absent
GroupCaptionOf(message_dict) ==
    IF CaptionOf(message_dict) = None THEN Some(Slice(0, 0, FALSE))
    ELSE CaptionOf(message_dict)

\* C15: one groupable category with several files and a text within the
\* caption limit: a delivery in which no send fails is exactly one
\* sendMediaGroup call with all the files in input order and the caption on
\* the first item, and no standalone sendText; a sendText appears only after
\* the grouped send has raised.
C15_OneGroupWithCaption ==
    \A t \in Tasks :
        (SeveralGroupable(t) /\ text_of(task[t].message_dict) <= CaptionLimit) =>
            LET cs == CallsOf(t)
            IN  /\ cs # << >> =>
                      /\ cs[1].op = "send_media_group"
                      /\ cs[1].media_type = CategoryOf(t)
                      /\ cs[1].files = FileNames(FilesOf(t))
                      /\ cs[1].text = GroupCaptionOf(task[t].message_dict)
                /\ \A i \in 1 .. Len(cs) :
                      cs[i].op = "send_message" =>
                          \E j \in 1 .. (i - 1) :
                              cs[j].op = "send_media_group" /\ Raised(cs[j])
                /\ (task[t].pc = "returned"
                      /\ \A i \in 1 .. Len(cs) : cs[i].outcome.kind = "ok")
                      => (task[t].result = Some(TRUE) /\ Len(cs) = 1)

\* C15 witness: two photos and a short text were delivered by a single
\* sendMediaGroup call
C15_Witness ==
    \E t \in Tasks :
        /\ ReturnedTrue(t)
        /\ SeveralGroupable(t) /\ CategoryOf(t) = "photo"
        /\ text_of(task[t].message_dict) \in 1 .. CaptionLimit
        /\ Len(CallsOf(t)) = 1
        /\ CallsOf(t)[1].op = "send_media_group"
        /\ CallsOf(t)[1].files = <<"a.png", "b.png">>
        /\ CallsOf(t)[1].text = Some(Slice(0, text_of(task[t].message_dict), FALSE))

\* The grouped send of task t failed with a transient error on each of its
\* three attempts
GroupFailedTransiently(t) ==
    /\ Len(CallsOf(t)) >= _telegram_retry_attempts
    /\ \A i \in 1 .. _telegram_retry_attempts :
          /\ CallsOf(t)[i].op = "send_media_group"
          /\ CallsOf(t)[i].attempt = i
          /\ CallsOf(t)[i].outcome.kind = "TelegramError"

\* C16: one groupable category with several files and a non-empty text
\* within the caption limit: when the grouped send fails with a transient
\* error on every attempt, the delivery falls back to one standalone sendText
\* followed by one individual send per file, in input order and without
\* caption, and the outcome is True when those sends succeed.
C16_GroupFallback ==
    \A t \in Tasks :
        (SeveralGroupable(t) /\ text_of(task[t].message_dict) \in 1 .. CaptionLimit
            /\ GroupFailedTransiently(t)) =>
            LET cs == CallsOf(t)
                rest == SubSeq(cs, _telegram_retry_attempts + 1, Len(cs))
                first == FirstAttempts(rest)
                files == FilesOf(t)
            IN  /\ Len(first) <= 1 + Len(files)
                /\ \A i \in 1 .. Len(rest) : rest[i].op # "send_media_group"
                /\ first # << >> =>
                      /\ first[1].op = "send_message"
                      /\ first[1].text = CaptionOf(task[t].message_dict)
                /\ \A i \in 2 .. Len(first) :
                      /\ first[i].op = send_op(CategoryOf(t))
                      /\ first[i].files = <<files[i - 1].filename>>
                      /\ first[i].text = None
                /\ (task[t].pc = "returned"
                      /\ \A i \in 1 .. Len(rest) : rest[i].outcome.kind = "ok")
                      => (task[t].result = Some(TRUE) /\ Len(rest) = 1 + Len(files))

\* C16 witness: after three failed grouped sends of two documents, the text
\* and then each document were sent, and the outcome was True
C16_Witness ==
    \E t \in Tasks :
        /\ ReturnedTrue(t)
        /\ SeveralGroupable(t) /\ CategoryOf(t) = "document"
        /\ text_of(task[t].message_dict) \in 1 .. CaptionLimit
        /\ GroupFailedTransiently(t)
        /\ Len(CallsOf(t)) = 6
        /\ CallsOf(t)[4].op = "send_message"
        /\ CallsOf(t)[5].op = "send_document" /\ CallsOf(t)[5].files = <<"a.pdf">>
        /\ CallsOf(t)[6].op = "send_document" /\ CallsOf(t)[6].files = <<"b.pdf">>

\* send_to_telegram is delivering regular attachments of several categories
SeveralCategories(t) ==
    /\ task[t].pc \in {"sending", "sleeping", "returned"}
    /\ Len(CategoriesOf(t)) > 1

\* The call delivers a generated-HTML attachment
IsGeneratedCall(c) == c.op = "send_document" /\ ~c.retry

\* The place of a media call in the order "categories, then generated HTML"
RankOf(t, c) ==
    IF IsGeneratedCall(c) THEN Len(CategoriesOf(t)) + 1
    ELSE CHOOSE k \in 1 .. Len(CategoriesOf(t)) : CategoriesOf(t)[k] = c.media_type

\* In the several-categories branch: the text goes out as standalone text
\* through exactly one of the two paths and before any media call, the media
\* calls follow category by category, the generated-HTML documents come
\* last and carry no caption
TextThenCategoriesThenGenerated(t) ==
    LET md == task[t].message_dict
        text == text_of(md)
        cs == CallsOf(t)
        texts == TextCallsOf(t)
        media == MediaCallsOf(t)
    IN  /\ text > CaptionLimit => ChunksInOrder(t)
        /\ text <= CaptionLimit =>
              \A i \in 1 .. Len(texts) :
                  texts[i].text = Some(Slice(0, text, FALSE)) /\ texts[i].attempt = i
        /\ text = 0 => texts = << >>
        /\ \A i \in 1 .. Len(cs) : \A j \in 1 .. Len(cs) :
              (i < j /\ cs[i].op # "send_message") => cs[j].op # "send_message"
        /\ (media # << >> /\ text > 0) => WholeTextSent(t)
        /\ \A i \in 1 .. Len(media) :
              /\ IsGeneratedCall(media[i]) \/ media[i].media_type \in Range(CategoriesOf(t))
              /\ IsGeneratedCall(media[i]) => (media[i].text = None /\ media[i].parse_mode = None)
              /\ \A j \in 1 .. Len(media) :
                    i < j => RankOf(t, media[i]) <= RankOf(t, media[j])

\* C17: with regular attachments of several categories the text is sent as
\* standalone text exactly once before any media call, then the categories
\* are sent one after another, then the generated-HTML attachments as
\* captionless documents.
C17_TextCategoriesGenerated ==
    \A t \in Tasks :
        SeveralCategories(t) =>
            /\ TextThenCategoriesThenGenerated(t)
            /\ (task[t].pc = "returned"
                  /\ \A i \in 1 .. Len(CallsOf(t)) : CallsOf(t)[i].outcome.kind = "ok")
                  => \A k \in 1 .. Len(CategoriesOf(t)) :
                        \E i \in 1 .. Len(CallsOf(t)) :
                            CallsOf(t)[i].media_type = CategoriesOf(t)[k]

\* C18: in the several-categories branch every regular attachment with
\* non-empty content, of every category, audio and animation included, is
\* handed to the transport at least once: in its category's grouped batch or
\* by an individual send after that batch failed.
C18_EveryFileHandedOver ==
    \A t \in Tasks :
        (SeveralCategories(t) /\ ReturnedTrue(t)) =>
            \A k \in 1 .. Len(CategoriesOf(t)) :
                LET files == task[t].media_files[CategoriesOf(t)[k]]
                IN  \A f \in 1 .. Len(files) :
                        \E i \in 1 .. Len(CallsOf(t)) :
                            /\ CallsOf(t)[i].media_type = CategoriesOf(t)[k]
                            /\ files[f].filename \in Range(CallsOf(t)[i].files)

\* C19: the delivered text is built from the plain-text body if present,
\* else from the plain text converted from HTML, else from the raw HTML
\* body; for a message received through handle_DATA whose only body is HTML
\* every text handed to the transport is a piece of the text built from the
\* converter's plain text.
C19_BodyPriority ==
    \A t \in Tasks :
        (task[t].caller = "handle_DATA" /\ CallsOf(t) # << >>) =>
            LET parsed_email == extract_message_content(Get(task[t].envelope).email)
                expected == _build_message_text(parsed_email.subject, body_of(parsed_email))
            IN  \A i \in 1 .. Len(CallsOf(t)) :
                    CallsOf(t)[i].text # None => Get(CallsOf(t)[i].text).hi <= expected

\* C20: the history never holds more than max_stored_messages entries and
\* keeps them in acceptance order; appending to a full history removes
\* exactly the oldest entry; a message is appended exactly once, by the step
\* that answers it with 250, and no other step changes the history.
C20_BoundedHistory ==
    /\ [](/\ Len(messages) <= max_stored_messages
          /\ \A k \in 1 .. (Len(messages) - 1) : messages[k].n < messages[k + 1].n
          /\ \A t \in Tasks :
                (task[t].caller = "handle_DATA" /\ task[t].status = Accepted250)
                    => (messages # << >> /\ messages[Len(messages)].n = task[t].n)
          /\ \A t \in Tasks :
                (task[t].caller = "handle_DATA" /\ task[t].status # Accepted250)
                    => \A k \in 1 .. Len(messages) : messages[k].n # task[t].n)
    /\ [][\A t \in Tasks :
            LET m == [n |-> task[t].n, message_dict |-> task[t].message_dict]
            IN  IF task[t].status # Accepted250 /\ task'[t].status = Accepted250
                THEN messages' =
                        IF Len(messages) < max_stored_messages
                        THEN Append(messages, m)
                        ELSE Append(Tail(messages), m)
                ELSE messages' = messages]_vars

\* C20 witness: the fourth accepted message was appended to a full history:
\* the oldest remaining entry left, the others kept their order
C20_Witness ==
    \E t \in Tasks :
        /\ task[t].status = Accepted250
        /\ task[t].n = 4
        /\ Len(messages) = max_stored_messages
        /\ messages[Len(messages)].n = 4
        /\ messages[1].n = 4 - max_stored_messages + 1

\* The deliveries recorded in the statistics so far
Recorded(st) == st.delivered_messages + st.failed_messages

\* C21: delivered_messages + failed_messages never exceeds the number of
\* send_to_telegram invocations issued so far; a step that records a
\* completed invocation raises exactly one of the two counters by exactly
\* one, no other step changes either, and a completed invocation is recorded
\* once, before the next one is issued.
C21_RecordedAtMostAttempts ==
    /\ [](/\ Recorded(stats) <= observed.completed
          /\ observed.completed <= observed.sends
          /\ observed.sends <= Recorded(stats) + 1
          /\ \A t \in Tasks :
                (task[t].caller = "handle_DATA" /\ task[t].pc = "returned")
                    <=> observed.completed = Recorded(stats) + 1)
    /\ [][\A t \in Tasks :
            IF task[t].pc = "returned" /\ task'[t].pc = "deliver"
            THEN \/ /\ stats'.delivered_messages = stats.delivered_messages + 1
                    /\ stats'.failed_messages = stats.failed_messages
                    /\ task[t].result = Some(TRUE)
                 \/ /\ stats'.failed_messages = stats.failed_messages + 1
                    /\ stats'.delivered_messages = stats.delivered_messages
                    /\ task[t].result = Some(FALSE)
            ELSE /\ stats'.delivered_messages = stats.delivered_messages
                 /\ stats'.failed_messages = stats.failed_messages]_vars

\* C21 witness: one delivery recorded as delivered and one as failed while a
\* third invocation is in progress
C21_Witness ==
    /\ stats.delivered_messages = 1
    /\ stats.failed_messages = 1
    /\ observed.sends = 3
    /\ observed.completed = 2
    /\ \E t \in Tasks : task[t].pc = "sending"

\* No handler is in progress
Quiescent == \A t \in Handlers : task[t].pc \in {"idle", "done"}

\* The dictionary d holds exactly the keys of the bag, each once, with the
\* number of its occurrences
TallyMatches(d, bag) ==
    /\ {d[i].key : i \in 1 .. Len(d)} = BagToSet(bag)
    /\ \A i \in 1 .. Len(d) : \A j \in 1 .. Len(d) : d[i].key = d[j].key => i = j
    /\ \A i \in 1 .. Len(d) : d[i].count = CopiesIn(d[i].key, bag)

\* The history holds each message answered with 250 once, the oldest ones
\* having left when there were more than max_stored_messages
HistoryMatches ==
    /\ Len(messages) = Min(observed.accepted, max_stored_messages)
    /\ \A i \in 1 .. Len(messages) : \A j \in 1 .. Len(messages) :
          messages[i].n = messages[j].n => i = j
    /\ \A t \in Handlers :
          (task[t].caller = "handle_DATA" /\ task[t].status = Accepted250) =>
              \/ \E k \in 1 .. Len(messages) :
                    messages[k] = [n |-> task[t].n, message_dict |-> task[t].message_dict]
              \/ observed.accepted > max_stored_messages
    /\ \A t \in Handlers :
          (task[t].caller = "handle_DATA" /\ task[t].status # Accepted250) =>
              \A k \in 1 .. Len(messages) : messages[k].n # task[t].n

CountChar(s, c) == Cardinality({i \in 1 .. Len(s) : s[i] = c})

\* x is what is left of s after dropping some leading characters
IsSuffix(x, s) == Len(x) <= Len(s) /\ SubSeq(s, Len(s) - Len(x) + 1, Len(s)) = x

\* The part of a local name before its first ".", and the part after it
NameOf(local_name) ==
    IF IndexOf(local_name, ".") = 0 THEN local_name
    ELSE SubSeq(local_name, 1, IndexOf(local_name, ".") - 1)

FlagPartOf(local_name) ==
    SubSeq(local_name, IndexOf(local_name, ".") + 1, Len(local_name))

\* The local name has a flag part, and f is one of its dot-separated flags
HasFlag(local_name, f) ==
    /\ IndexOf(local_name, ".") > 0
    /\ LET r == FlagPartOf(local_name)
       IN  \E i \in 1 .. Len(r) :
              /\ i + Len(f) - 1 <= Len(r)
              /\ SubSeq(r, i, i + Len(f) - 1) = f
              /\ (i = 1 \/ r[i - 1] = ".")
              /\ (i + Len(f) - 1 = Len(r) \/ r[i + Len(f)] = ".")

\* The number of pieces of a name: split on "!", or on "_" when it holds
\* no "!"; and the separator that applies
PiecesOf(name) ==
    IF CountChar(name, "!") > 0 THEN CountChar(name, "!") + 1
    ELSE CountChar(name, "_") + 1

SeparatorOf(name) == IF CountChar(name, "!") > 0 THEN "!" ELSE "_"

\* C23: LocalRecipient.parse splits the name before the first "." on "!"
\* and, only if that gives a single piece, on "_": one piece gives a chat id
\* (the piece, less leading id-prefix characters) without thread id, two
\* pieces give chat id and thread id, any other count gives no destination
\* (as does the empty local name); silent holds exactly when the flags
\* contain "s" or "silent".
C23_ParseSplitsName ==
    helper.fn = "LocalRecipient.parse" =>
        LET local_name == helper.arg
            r == helper.result
            name == NameOf(local_name)
            at == IndexOf(name, SeparatorOf(name))
            silent == HasFlag(local_name, <<"s">>) \/ HasFlag(local_name, <<"s", "i", "l", "e", "n", "t">>)
        IN  /\ local_name = << >> => r = None
            /\ (local_name # << >> /\ PiecesOf(name) = 1) =>
                  /\ r # None
                  /\ Get(r).message_thread_id = None
                  /\ IsSuffix(Get(r).chat_id, name)
                  /\ (name = << >> \/ name[1] \notin {"i", "d"}) => Get(r).chat_id = name
                  /\ Get(r).silent = silent
            /\ (local_name # << >> /\ PiecesOf(name) = 2) =>
                  /\ r # None
                  /\ Get(r).message_thread_id = Some(SubSeq(name, at + 1, Len(name)))
                  /\ IsSuffix(Get(r).chat_id, SubSeq(name, 1, at - 1))
                  /\ (at = 1 \/ name[1] \notin {"i", "d"})
                        => Get(r).chat_id = SubSeq(name, 1, at - 1)
                  /\ Get(r).silent = silent
            /\ PiecesOf(name) > 2 => r = None
            /\ local_name = <<"-", "1", "0", "0", "1", "2", "3", "4", "5", "!", "5", "5", ".", "s">> =>
                  r = Some([chat_id |-> <<"-", "1", "0", "0", "1", "2", "3", "4", "5">>, message_thread_id |-> Some(<<"5", "5">>),
                            silent |-> TRUE])
            /\ local_name = <<"-", "1", "0", "0", "1", "2", "3", "4", "5", ".", "s">> =>
                  r = Some([chat_id |-> <<"-", "1", "0", "0", "1", "2", "3", "4", "5">>, message_thread_id |-> None, silent |-> TRUE])

\* C23 witness: "-10012345!55.s" was parsed into chat "-10012345", thread
\* "55", silent
C23_Witness ==
    /\ helper.fn = "LocalRecipient.parse"
    /\ helper.arg = <<"-", "1", "0", "0", "1", "2", "3", "4", "5", "!", "5", "5", ".", "s">>
    /\ helper.result # None
    /\ Get(helper.result).chat_id = <<"-", "1", "0", "0", "1", "2", "3", "4", "5">>
    /\ Get(helper.result).message_thread_id = Some(<<"5", "5">>)
    /\ Get(helper.result).silent

\* The local part holds none of the separators ".", "!" and "_"
NoSeparator(local_name) ==
    \A i \in 1 .. Len(local_name) : local_name[i] \notin {".", "!", "_"}

\* C24: a local part without ".", "!" or "_" (and that is no alias) resolves
\* to a destination without thread id whose chat id is the local part
\* unchanged, except that one leading literal "id" is removed when present;
\* no other leading character is removed.
C24_OnlyIdPrefixRemoved ==
    helper.fn = "_resolve_local_recipient" =>
        LET local_name == helper.arg
        IN  (local_name # << >> /\ NoSeparator(local_name)
                /\ local_name \notin DOMAIN recipient_aliases) =>
                helper.result =
                    Some([chat_id |-> IF StartsWith(local_name, <<"i", "d">>)
                                      THEN SubSeq(local_name, 3, Len(local_name))
                                      ELSE local_name,
                          message_thread_id |-> None, silent |-> FALSE])

\* The flag suffix of a local name: its first "." and what follows
FlagSuffixOf(local_name) ==
    IF IndexOf(local_name, ".") = 0 THEN << >>
    ELSE SubSeq(local_name, IndexOf(local_name, "."), Len(local_name))

\* C25: when the name before the first "." is a key of the alias map, the
\* address resolves to what parsing the alias value followed by the original
\* flag suffix gives ("admin.s" with admin -> "-100!55": chat "-100", thread
\* "55", silent); a name that is no key is parsed unchanged; the substitution
\* is made once: an alias whose value is itself a key resolves to that value.
C25_AliasSubstitutedOnce ==
    helper.fn = "_resolve_local_recipient" =>
        LET local_name == helper.arg
            name == NameOf(local_name)
        IN  /\ name \in DOMAIN recipient_aliases =>
                  helper.result =
                      LocalRecipient_parse(recipient_aliases[name] \o FlagSuffixOf(local_name))
            /\ name \notin DOMAIN recipient_aliases =>
                  helper.result = LocalRecipient_parse(local_name)
            /\ local_name = <<"a", "d", "m", "i", "n", ".", "s">> =>
                  helper.result = Some([chat_id |-> <<"-", "1", "0", "0">>, message_thread_id |-> Some(<<"5", "5">>),
                                        silent |-> TRUE])
            /\ name = <<"b", "o", "s", "s">> =>
                  /\ helper.result # None
                  /\ Get(helper.result).chat_id = <<"a", "d", "m", "i", "n">>
                  /\ Get(helper.result).message_thread_id = None

\* C25 witness: "admin.s" was resolved through the alias to chat "-100",
\* thread "55", silent
C25_Witness ==
    /\ helper.fn = "_resolve_local_recipient"
    /\ helper.arg = <<"a", "d", "m", "i", "n", ".", "s">>
    /\ helper.result = Some([chat_id |-> <<"-", "1", "0", "0">>, message_thread_id |-> Some(<<"5", "5">>),
                             silent |-> TRUE])

\* C26: resolution never gives a destination with an empty chat id: an empty
\* canonical name (an empty alias value, a local part starting with "."),
\* with or without flag suffix, gives no destination, and no delivery is set
\* up for that recipient.
C26_NoEmptyChatId ==
    /\ helper.fn \in {"LocalRecipient.parse", "_resolve_local_recipient"} =>
          (helper.result # None => Get(helper.result).chat_id # << >>)
    /\ helper.fn = "_handle_local_delivery" =>
          \A k \in 1 .. Len(helper.result) : helper.result[k].chat_id # << >>

\* The recipient is of a configured local domain and its local part resolves
Deliverable(rcpt) ==
    rcpt.domain \in local_domains /\ _resolve_local_recipient(rcpt.local) # None

\* C27: in handle_DATA a recipient of a domain that is not local, or whose
\* local part does not resolve, gets no delivery attempt and no
\* record_delivery; the other recipients of the message get theirs, in
\* order, and the reply is 250 all the same.
C27_UnresolvedRecipientsSkipped ==
    \A t \in Tasks :
        LET tk == task[t]
        IN  (tk.caller = "handle_DATA" /\ tk.valid[1]
                /\ ~extract_message_content(Get(tk.envelope).email).raised) =>
            LET deliverable == SelectSeq(Get(tk.envelope).rcpt_tos, Deliverable)
            IN  /\ Len(tk.attempted) <= Len(deliverable)
                /\ \A i \in 1 .. Len(tk.attempted) :
                      tk.attempted[i] = Get(_resolve_local_recipient(deliverable[i].local))
                /\ Len(tk.results) <= Len(tk.attempted)
                /\ \A i \in 1 .. Len(CallsOf(t)) :
                      /\ CallsOf(t)[i].delivery \in 1 .. Len(deliverable)
                      /\ CallsOf(t)[i].chat_id =
                            Get(_resolve_local_recipient(
                                    deliverable[CallsOf(t)[i].delivery].local)).chat_id
                /\ tk.pc = "done" =>
                      /\ tk.status = Accepted250
                      /\ Len(tk.attempted) = Len(deliverable)
                      /\ Len(tk.results) = Len(deliverable)
                      /\ tk.n = 1 =>
                            /\ Recorded(stats) = Len(deliverable)
                            /\ observed.sends = Len(deliverable)

\* C27 witness: a message for a recipient that does not resolve, a recipient
\* of another domain and a recipient that resolves was answered with 250
\* after one delivery, made for the third recipient
C27_Witness ==
    \E t \in Tasks :
        /\ task[t].status = Accepted250
        /\ Len(Get(task[t].envelope).rcpt_tos) = 3
        /\ ~Deliverable(Get(task[t].envelope).rcpt_tos[1])
        /\ ~Deliverable(Get(task[t].envelope).rcpt_tos[2])
        /\ Len(task[t].attempted) = 1
        /\ task[t].attempted[1].chat_id = <<"7">>
        /\ Len(task[t].results) = 1
        /\ CallsOf(t) # << >>

\* The content type begins with one of the entries the MEDIA_TYPES table
\* lists for the type name
MatchesType(content_type, type_name) ==
    \E k \in 1 .. Len(MEDIA_TYPES) :
        /\ MEDIA_TYPES[k].type_name = type_name
        /\ \E mime_type \in MEDIA_TYPES[k].mime_types :
              StartsWith(lower(content_type), mime_type)

\* The categories of the classification `grouped` that hold attachment a
CategoriesHolding(grouped, a) ==
    {c \in DOMAIN grouped : \E i \in 1 .. Len(grouped[c]) : grouped[c][i] = a}

\* C28: an attachment of content type image/gif is classified as animation
\* and never as photo; the category of an attachment with content is
\* decided by prefix match in the precedence animation, photo, video, audio,
\* and a type that matches none of them is a document.
C28_GifIsAnimation ==
    helper.fn = "_prepare_media_files" =>
        /\ DOMAIN helper.result = {"photo", "video", "audio", "animation", "document"}
        /\ \A k \in 1 .. Len(helper.arg) :
              LET a == helper.arg[k]
                  ct == a.content_type
                  cats == CategoriesHolding(helper.result, a)
              IN  a.size > 0 =>
                    /\ Cardinality(cats) = 1
                    /\ StartsWith(lower(ct), <<"i", "m", "a", "g", "e", "/", "g", "i", "f">>) => cats = {"animation"}
                    /\ cats = {"animation"} <=> MatchesType(ct, "animation")
                    /\ cats = {"photo"} <=>
                          (~MatchesType(ct, "animation") /\ MatchesType(ct, "photo"))
                    /\ cats = {"video"} <=>
                          (~MatchesType(ct, "animation") /\ ~MatchesType(ct, "photo")
                              /\ MatchesType(ct, "video"))
                    /\ cats = {"audio"} <=>
                          (~MatchesType(ct, "animation") /\ ~MatchesType(ct, "photo")
                              /\ ~MatchesType(ct, "video") /\ MatchesType(ct, "audio"))
                    /\ cats = {"document"} <=>
                          \A type_name \in {"animation", "photo", "video", "audio"} :
                              ~MatchesType(ct, type_name)
        /\ helper.arg = GroupingTestAttachments =>
              /\ FileNames(helper.result["photo"]) = <<"img.png">>
              /\ FileNames(helper.result["video"]) = <<"video.mp4">>
              /\ FileNames(helper.result["audio"]) = <<"audio.ogg">>
              /\ FileNames(helper.result["animation"]) = <<"anim.gif">>
              /\ FileNames(helper.result["document"]) = <<"doc.pdf">>

\* C28 witness: a GIF and two PNG images were classified, the GIF as the one
\* animation and the PNG images as the photos
C28_Witness ==
    /\ helper.fn = "_prepare_media_files"
    /\ helper.arg = <<Gif1, Png1, Png2>>
    /\ helper.result["animation"] = <<Gif1>>
    /\ helper.result["photo"] = <<Png1, Png2>>

\* C29: the chunks _split_text(s, n) returns, joined in order, are s; every
\* chunk but possibly the last has exactly n characters; no chunk is empty;
\* the empty string gives the empty list.
C29_SplitConcatenates ==
    helper.fn = "_split_text" =>
        LET text == helper.arg.text
            n == helper.arg.max_length
            chunks == helper.result
        IN  /\ Flatten(chunks) = text
            /\ \A k \in 1 .. (Len(chunks) - 1) : Len(chunks[k]) = n
            /\ \A k \in 1 .. Len(chunks) : Len(chunks[k]) \in 1 .. n
            /\ text = << >> => chunks = << >>
            /\ (text = <<"a", "b", "a">> /\ n = 2) => chunks = << <<"a", "b">>, <<"a">> >>

\* C29 witness: a text of seven characters was split at length three into
\* two full chunks and a last chunk of one character
C29_Witness ==
    /\ helper.fn = "_split_text"
    /\ helper.arg.text = <<"a", "b", "b", "a", "a", "b", "b">>
    /\ helper.arg.max_length = 3
    /\ helper.result = << <<"a", "b", "b">>, <<"a", "a", "b">>, <<"b">> >>

\* The elements whose character data the converter is to leave out
HiddenElements == {"style", "script", "title"}

\* Item k of the markup lies inside an open style, script or title element
InsideHidden(items, k) ==
    \E j \in 1 .. (k - 1) :
        /\ items[j].kind = "start"
        /\ items[j].tag \in HiddenElements
        /\ \A i \in (j + 1) .. (k - 1) :
              ~(items[i].kind = "end" /\ items[i].tag = items[j].tag)

\* The positions of the character data inside, and outside, such elements
HiddenData(items) ==
    {k \in 1 .. Len(items) : items[k].kind = "text" /\ InsideHidden(items, k)}

BodyData(items) ==
    {k \in 1 .. Len(items) : items[k].kind = "text" /\ ~InsideHidden(items, k)}

\* C30: for every markup the text of the converter holds neither "<" nor
\* ">", holds none of the character data that stood inside a style, script
\* or title element (unless the same data also stands in the body), and
\* holds the character data of the ordinary body elements.
C30_NoMarkupNoHiddenData ==
    helper.fn = "_HTMLToTextParser" =>
        LET items == helper.arg
            text == helper.result
        IN  /\ "<" \notin Range(text)
            /\ ">" \notin Range(text)
            /\ \A k \in HiddenData(items) :
                  (/\ strip(items[k].data) # << >>
                   /\ \A b \in BodyData(items) : items[b].data # items[k].data)
                  => ~Contains(text, strip(items[k].data))
            /\ \A k \in BodyData(items) :
                  Contains(text, strip(html_unescape(items[k].data)))

\* The individual sends of the files of the group handed over by call i of
\* task t, made after that call: first attempts only
IndividualSendsAfter(t, i) ==
    LET cs == CallsOf(t)
    IN  FirstAttempts(SelectSeq(SubSeq(cs, i + 1, Len(cs)),
            LAMBDA c : /\ c.op = send_op(cs[i].media_type)
                       /\ c.media_type = cs[i].media_type
                       /\ ~IsGeneratedCall(c)))

\* C31: when a grouped send has failed, every file of the group is handed
\* to the transport exactly once, in order, by an individual send, whatever
\* fallback send fails (the standalone text or one of the files); a failed
\* fallback send only turns the outcome to False.
C31_FallbackSendsAllAttempted ==
    \A t \in Tasks :
        task[t].pc = "returned" =>
            \A i \in 1 .. Len(CallsOf(t)) :
                (CallsOf(t)[i].op = "send_media_group" /\ Raised(CallsOf(t)[i])) =>
                    LET sends == IndividualSendsAfter(t, i)
                    IN  [k \in 1 .. Len(sends) |-> sends[k].files[1]] = CallsOf(t)[i].files

\* The backoff delay after j transient failures
BackoffAfter(j) ==
    Min(_telegram_retry_base_delay * (2 ^ j), _telegram_retry_max_delay)

\* The number of transient failures among the attempts of the operation of
\* call i of task t that came before that call
EarlierTransientFailures(t, i) ==
    LET cs == CallsOf(t)
    IN  Cardinality({j \in (i - cs[i].attempt + 1) .. (i - 1) :
                        cs[j].outcome.kind = "TelegramError"})

\* C32: inside _execute_with_retry a suspension follows only a failed attempt
\* that is not the last one; after a rate-limit failure it lasts exactly the
\* duration the transport supplied and the backoff delay stays as it was;
\* after a transient failure it lasts min(base * 2^j, max), j being the number
\* of earlier transient failures of the same operation.
C32_SuspensionAfterFailure ==
    \A t \in Tasks :
        task[t].pc = "sleeping" =>
            LET cs == CallsOf(t)
                last == cs[Len(cs)]
                j == EarlierTransientFailures(t, Len(cs))
            IN  /\ last.retry
                /\ last.outcome.kind \in {"RetryAfter", "TelegramError"}
                /\ last.attempt < _telegram_retry_attempts
                /\ last.outcome.kind = "RetryAfter" =>
                      /\ task[t].sleep = last.outcome.retry_after
                      /\ task[t].delay = BackoffAfter(j)
                /\ last.outcome.kind = "TelegramError" =>
                      /\ task[t].sleep = BackoffAfter(j)
                      /\ task[t].delay = BackoffAfter(j + 1)

\* The number of elements of the sequences grouped[c], c in the set cats
RECURSIVE TotalLen(_, _)
TotalLen(grouped, cats) ==
    IF cats = {} THEN 0
    ELSE LET c == CHOOSE x \in cats : TRUE
         IN  Len(grouped[c]) + TotalLen(grouped, cats \ {c})

\* C33: the classifier partitions its input: every attachment with content
\* is in exactly one of the five categories, as many times as it occurs in
\* the input; an attachment without content is in none; every category holds
\* its attachments in input order.
C33_ClassifierPartitions ==
    helper.fn = "_prepare_media_files" =>
        LET attachments == helper.arg
            grouped == helper.result
            with_content == SelectSeq(attachments, LAMBDA a : a.size > 0)
        IN  /\ DOMAIN grouped = {"photo", "video", "audio", "animation", "document"}
            /\ \A k \in 1 .. Len(attachments) :
                  Cardinality(CategoriesHolding(grouped, attachments[k])) =
                      IF attachments[k].size > 0 THEN 1 ELSE 0
            /\ TotalLen(grouped, DOMAIN grouped) = Len(with_content)
            /\ \A c \in DOMAIN grouped :
                  grouped[c] = SelectSeq(with_content,
                                         LAMBDA a : c \in CategoriesHolding(grouped, a))

\* C33 witness: a PNG image, a file without content, a GIF and a PDF were
\* classified; the file without content is in no category
C33_Witness ==
    /\ helper.fn = "_prepare_media_files"
    /\ helper.arg = <<Png1, Empty1, Gif1, Pdf1>>
    /\ helper.result["photo"] = <<Png1>>
    /\ helper.result["animation"] = <<Gif1>>
    /\ helper.result["document"] = <<Pdf1>>
    /\ CategoriesHolding(helper.result, Empty1) = {}

\* The parts of the message that can give the body of content type ct: in a
\* multipart message those not marked as attachment, in a message of a
\* single part that part
EligibleParts(email_message, ct) ==
    SelectSeq(email_message.parts,
              LAMBDA part : /\ part.content_type = ct
                            /\ email_message.multipart => part.disposition # "attachment")

\* C34: when extract_message_content returns, text_body is the text of the
\* first eligible text/plain part and html_body that of the first eligible
\* text/html part (absent when there is none), whatever parts follow;
\* plain_from_html is present exactly when html_body is; and the attachments
\* hold exactly one generated_html attachment when html_body is present and
\* none otherwise.
C34_FirstBodiesOneGenerated ==
    (helper.fn = "extract_message_content" /\ ~helper.result.raised) =>
        LET parsed_email == helper.result
            plain_parts == EligibleParts(helper.arg, <<"t", "e", "x", "t", "/", "p", "l", "a", "i", "n">>)
            html_parts == EligibleParts(helper.arg, <<"t", "e", "x", "t", "/", "h", "t", "m", "l">>)
            generated == SelectSeq(parsed_email.attachments, LAMBDA a : a.generated_html)
        IN  /\ parsed_email.text_body =
                  IF plain_parts = << >> THEN None ELSE Some(plain_parts[1].text)
            /\ parsed_email.html_body =
                  IF html_parts = << >> THEN None ELSE Some(html_parts[1].text)
            /\ parsed_email.plain_from_html = None <=> parsed_email.html_body = None
            /\ Len(generated) = IF parsed_email.html_body = None THEN 0 ELSE 1

\* C34 witness: a message with two different text/html parts followed by a
\* text/plain part was extracted; the bodies are those of the
\* first part of each kind and one document was generated
C34_Witness ==
    /\ helper.fn = "extract_message_content"
    /\ helper.arg.multipart
    /\ helper.arg.parts = <<HtmlPart, HtmlPart2, PlainPart2>>
    /\ helper.result.html_body = Some(HtmlPart.text)
    /\ helper.result.plain_from_html = Some(HtmlPart.plain)
    /\ helper.result.text_body = Some(PlainPart2.text)
    /\ Len(helper.result.attachments) = 1
    /\ helper.result.attachments[1].generated_html

\* The handler task t was cancelled while handling the message in hand
WasCancelled(t) == task[t].caller = "handle_DATA" /\ task[t].n \in observed.cancelled

\* C35: when the task running handle_DATA is cancelled while suspended in a
\* remote call or a retry sleep, the handler ends there: the interrupted call
\* is the last one of the message, the interrupted attempt is not recorded
\* by record_delivery, no delivery is started for the remaining destinations
\* and the message is not appended to the history; the statistics, the
\* history, the earlier calls and the earlier results stay as they were.
C35_CancellationAbandons ==
    /\ [](\A t \in Tasks :
            WasCancelled(t) =>
                /\ task[t].pc = "cancelled"
                /\ Len(task[t].results) = Len(task[t].attempted) - 1
                /\ Len(task[t].attempted) = task[t].idx
                /\ \A i \in 1 .. Len(messages) : messages[i].n # task[t].n
                /\ \A i \in 1 .. Len(CallsOf(t)) :
                      CallsOf(t)[i].outcome.kind = "CancelledError" => i = Len(CallsOf(t)))
    /\ [][\A t \in Tasks :
            /\ (~WasCancelled(t) /\ WasCancelled(t)') =>
                  /\ stats' = stats
                  /\ messages' = messages
                  /\ task'[t].results = task[t].results
                  /\ task'[t].attempted = task[t].attempted
                  /\ Len(calls') <= Len(calls) + 1
                  /\ SubSeq(calls', 1, Len(calls)) = calls
            /\ WasCancelled(t) => UNCHANGED <<stats, messages, calls, task>>]_vars

\* C35 witness: the task was cancelled in the transport call of the second
\* destination after the first destination had been delivered and counted
C35_Witness ==
    \E t \in Tasks :
        /\ WasCancelled(t)
        /\ task[t].pc = "cancelled"
        /\ task[t].idx = 2
        /\ task[t].results = <<TRUE>>
        /\ stats.delivered_messages = 1
        /\ stats.total_messages = 1
        /\ messages = << >>
        /\ Len(CallsOf(t)) = 2
        /\ CallsOf(t)[1].outcome.kind = "ok"
        /\ CallsOf(t)[2].outcome.kind = "CancelledError"

\* C35 witness: the task was cancelled in a retry sleep
C35_WitnessSleep ==
    \E t \in Tasks :
        /\ WasCancelled(t)
        /\ task[t].pc = "cancelled"
        /\ CallsOf(t) # << >>
        /\ CallsOf(t)[Len(CallsOf(t))].outcome.kind = "TelegramError"

\* The generated-HTML attachments of a message
GeneratedOf(message_dict) ==
    SelectSeq(message_dict.attachments, LAMBDA a : a.generated_html)

\* C36: a delivery of a message that carries a generated-HTML attachment
\* returns True only after a sendDocument call for that attachment, whatever
\* regular attachments accompany it.
C36_GeneratedHtmlAlwaysSent ==
    \A t \in Tasks :
        (ReturnedTrue(t) /\ GeneratedOf(task[t].message_dict) # << >>) =>
            \E i \in 1 .. Len(CallsOf(t)) :
                /\ IsGeneratedCall(CallsOf(t)[i])
                /\ CallsOf(t)[i].files = <<GeneratedOf(task[t].message_dict)[1].filename>>

\* Deliveries whose result record_delivery has counted so far
DeliveriesRecorded ==
    observed.completed - Cardinality({t \in Tasks : task[t].pc = "returned"})

\* C37: the reset of send_stats never discards a count that was not in the
\* report it sent: whenever no send_stats call is in progress, every message
\* recorded by record_message and every delivery recorded by record_delivery
\* is in the report of some send_stats call or still in the counters.
C37_NoCountLost ==
    reporter.pc = "idle" =>
        /\ observed.extracted
             = reporter.reported.total_messages + stats.total_messages
        /\ DeliveriesRecorded
             = reporter.reported.delivered_messages + reporter.reported.failed_messages
               + stats.delivered_messages + stats.failed_messages

\* C38: within one delivery the message text reaches the destination as
\* standalone text at most once: no two successful send_message calls of the
\* same delivery carry the same part of the text, so that once the long-text
\* path has sent the full text no later step, the fallback after a failed
\* grouped send included, sends the text or its truncated form again.
C38_TextStandaloneAtMostOnce ==
    \A t \in Tasks :
        \A j \in 1 .. Len(TextCallsOf(t)) : \A i \in 1 .. j - 1 :
            LET first == TextCallsOf(t)[i]
                later == TextCallsOf(t)[j]
            IN  (first.outcome = Ok /\ later.outcome = Ok) =>
                    \/ Get(later.text).lo >= Get(first.text).hi
                    \/ Get(first.text).lo >= Get(later.text).hi

\* The thread id a transport call is given for a destination: none when the
\* destination has no thread id or an empty one
ThreadIdFor(destination) ==
    IF destination.message_thread_id = None \/ Get(destination.message_thread_id) = << >>
    THEN None ELSE destination.message_thread_id

\* C39: every transport call issued during send_to_telegram(chat, thread,
\* message, silent), in every branch and every fallback, carries exactly that
\* chat id, that thread id (absent when none) and that silent flag; with
\* several destinations for one message, handle_DATA passes each local
\* recipient's own parameters and no call made for one destination uses
\* another destination's parameters.
C39_CallsCarryOwnDestination ==
    \A t \in Tasks :
        /\ task[t].caller = "handle_DATA" =>
              \A k \in 1 .. Len(task[t].attempted) :
                  task[t].attempted[k] = task[t].local_recipients[k]
        /\ \A i \in 1 .. Len(CallsOf(t)) :
              LET c == CallsOf(t)[i]
                  destination == task[t].attempted[c.delivery]
              IN  /\ c.chat_id = destination.chat_id
                  /\ c.message_thread_id = ThreadIdFor(destination)
                  /\ c.silent = destination.silent

\* C39 witness: one message went to three destinations; the first received a
\* call with chat 7 and thread 9, the second a silent document sent
\* individually after its grouped send had failed, with chat 1 and no
\* thread, and the third a call with chat 123, no thread and not silent
C39_Witness ==
    \E t \in Tasks :
        /\ task[t].pc = "done"
        /\ Len(task[t].attempted) = 3
        /\ \E i \in 1 .. Len(CallsOf(t)) :
              /\ CallsOf(t)[i].delivery = 1
              /\ CallsOf(t)[i].chat_id = <<"7">>
              /\ CallsOf(t)[i].message_thread_id = Some(<<"9">>)
              /\ ~CallsOf(t)[i].silent
        /\ \E i \in 2 .. Len(CallsOf(t)) :
              /\ CallsOf(t)[i].delivery = 2
              /\ CallsOf(t)[i].op = "send_document"
              /\ CallsOf(t)[i - 1].op = "send_message"
              /\ CallsOf(t)[i - 1].delivery = 2
              /\ CallsOf(t)[i].chat_id = <<"1">>
              /\ CallsOf(t)[i].message_thread_id = None
              /\ CallsOf(t)[i].silent
        /\ \E i \in 1 .. Len(CallsOf(t)) :
              /\ CallsOf(t)[i].delivery = 3
              /\ CallsOf(t)[i].chat_id = <<"1", "2", "3">>
              /\ CallsOf(t)[i].message_thread_id = None
              /\ ~CallsOf(t)[i].silent

\* C40: send_to_telegram returns True only after at least one transport call
\* for that destination has succeeded; in particular a message with empty
\* subject and body and no deliverable attachment is never reported as
\* delivered without any send.
C40_TrueOnlyAfterSuccessfulCall ==
    \A t \in Tasks :
        ReturnedTrue(t) =>
            \E i \in 1 .. Len(CallsOf(t)) :
                /\ CallsOf(t)[i].delivery = task[t].idx
                /\ CallsOf(t)[i].outcome = Ok

====
